---------------------------- MODULE Spec2Model ----------------------------
(***************************************************************************)
(* Conversation orchestration engine of Chat-MBTI (diagnosis-ai-api).      *)
(*                                                                         *)
(* Three specifications share this module:                                 *)
(*   FilterSpec : _filter_messages_by_phase applied to arbitrary message   *)
(*                lists (the context windower, a pure function);           *)
(*   RetrySpec  : the retry_on_llm_error wrapper around one generation     *)
(*                call, one step per attempt of the wrapped call;          *)
(*   Spec       : MBTIConversationService driving LangGraphDriver against  *)
(*                the session store, the checkpoint store and the question *)
(*                repository.                                              *)
(* Each specification leaves the variables of the other two at rest.       *)
(***************************************************************************)
EXTENDS Integers, Sequences, FiniteSets, TLC

VARIABLES
    \* ---- _filter_messages_by_phase: arguments, result, position
    messages_in,              \* argument `messages`
    current_question_number,  \* argument `current_question_number`
    questions_per_phase,      \* argument `questions_per_phase`
    filtered_messages,        \* the returned list
    fpc,                      \* "idle" | "call" | "ret"
    \* ---- retry_on_llm_error wrapper around one generation call
    script,          \* what the LLM port does on its 1st, 2nd, ... invocation
    wrapped,         \* which wrapped method runs: "question" | "options"
    attempt,         \* loop variable `attempt` (0-based)
    delay,           \* local `delay`
    last_exception,  \* local `last_exception`
    sleeps,          \* durations handed to time.sleep, in order
    ncalls,          \* number of invocations of the LLM port so far
    rpc,             \* "idle" | "running" | "returned" | "raised"
    raised,          \* class of the exception that left the wrapper
    \* ---- MBTIConversationService and the stores behind its ports
    caller,      \* the user id the service is called with
    sessions,    \* chat_sessions rows; a session's id is its index
    checkpoint,  \* per session id, the latest checkpointed ChatState
    questions,   \* generated_questions rows; a question's id is its index
    answers,     \* user_answers rows
    last,        \* what the latest service call did and returned
    anomalies,   \* events off the straight line so far
    \* ---- start_conversation calls in flight in separate workers
    inflight,    \* per worker, the position and locals of its call
    \* ---- DataCollectionService: the numbering functions
    question_number,  \* argument `question_number`
    numbering,        \* what the two functions return for it
    npc,              \* "idle" | "call" | "ret"
    \* ---- GPUModelManager, for one model name
    instance,     \* _instances[name]: id of the object stored (0: no entry)
    objects,      \* objects allocated by super().__new__ so far
    returned,     \* ids of the objects the constructions returned
    initialized,  \* self.initialized: "unset" | "False" | "True"
    model,        \* self.model: "unset" | "None" | "loaded"
    tokenizer,    \* self.tokenizer: "unset" | "None" | "loaded"
    cpc,          \* position of the construction running on the event loop
    tasks,        \* per load_model call, its position and result
    lock_holder,  \* the call holding _locks[name] (0: free)
    job,          \* the _load_sync running on the executor thread
    loads_ok      \* number of _load_sync runs that returned True

varsFilter == <<messages_in, current_question_number, questions_per_phase,
                filtered_messages, fpc>>
varsRetry == <<script, wrapped, attempt, delay, last_exception, sleeps,
               ncalls, rpc, raised>>
varsService == <<caller, sessions, checkpoint, questions, answers, last,
                 anomalies>>
varsRace == <<inflight>>
varsNumbering == <<question_number, numbering, npc>>
varsManager == <<instance, objects, returned, initialized, model, tokenizer,
                 cpc, tasks, lock_holder, job, loads_ok>>
vars == <<varsFilter, varsRetry, varsService, varsRace, varsNumbering,
          varsManager>>

---------------------------------------------------------------------------
(* Bounds of the model *)

\* longest message list given to the filter in FilterSpec
MaxMsgs == 6
\* largest phase size given to the filter in FilterSpec
MaxQ == 3
\* number of invocations of the LLM port a script describes in RetrySpec
MaxCalls == 4
\* events off the straight line of one assessment (failed rounds, empty
\* answers, undo calls, sessions closed early, sessions after the first) in
\* one behaviour of Spec: of the standard user, of the data collection user
MaxAnomalies == 1
MaxAnomaliesDataCollection == 0
\* start_conversation calls one worker handles
MaxStarts == 2
\* restarts of the data collection user, and the order it answers up to
MaxRestarts == 1
MaxRounds == 2
\* undos of one session
MaxUndos == 2
\* question numbers the numbering functions are called with, either sign
MaxQuestionNumber == 60
\* constructions of GPUModelManager for the model name
MaxConstructions == 3

---------------------------------------------------------------------------
(* Messages *)

Roles == {"assistant", "user"}

Message(role, content) == [role |-> role, content |-> content]

\* Number of assistant messages among the first p messages of msgs.
RECURSIVE AssistantCount(_, _)
AssistantCount(msgs, p) ==
    IF p = 0 THEN 0
    ELSE AssistantCount(msgs, p - 1)
         + (IF msgs[p].role = "assistant" THEN 1 ELSE 0)

---------------------------------------------------------------------------
(* ContextWindower: _filter_messages_by_phase *)

\* current_phase = ((current_question_number - 1) // questions_per_phase) + 1
CurrentPhase(n, Q) == ((n - 1) \div Q) + 1

\* phase_start_question = (current_phase - 1) * questions_per_phase + 1
PhaseStartQuestion(n, Q) == (CurrentPhase(n, Q) - 1) * Q + 1

\* the test of the assistant branch
IncludeQuestionNoLower(question_count, n, Q) ==
    question_count <= n

IncludeQuestionNoUpper(question_count, n, Q) ==
    PhaseStartQuestion(n, Q) <= question_count

IncludeQuestionBelow(question_count, n, Q) ==
    PhaseStartQuestion(n, Q) <= question_count /\ question_count < n

IncludeQuestion(question_count, n, Q) ==
    PhaseStartQuestion(n, Q) <= question_count /\ question_count <= n

\* the test of the user branch
IncludeAnswer(filtered) ==
    Len(filtered) > 0 /\ filtered[Len(filtered)].role = "assistant"

\* the for loop over messages, from position i on
RECURSIVE FilterLoop(_, _, _, _, _, _)
FilterLoop(msgs, i, question_count, filtered, n, Q) ==
    IF i > Len(msgs) THEN filtered
    ELSE IF msgs[i].role = "assistant"
         THEN FilterLoop(msgs, i + 1, question_count + 1,
                         IF IncludeQuestion(question_count + 1, n, Q)
                         THEN Append(filtered, msgs[i]) ELSE filtered,
                         n, Q)
         ELSE IF msgs[i].role = "user" /\ IncludeAnswer(filtered)
              THEN FilterLoop(msgs, i + 1, question_count,
                              Append(filtered, msgs[i]), n, Q)
              ELSE FilterLoop(msgs, i + 1, question_count, filtered, n, Q)

FilterMessagesByPhase(msgs, n, Q) ==
    IF n <= 0 THEN <<>> ELSE FilterLoop(msgs, 1, 0, <<>>, n, Q)

---------------------------------------------------------------------------
(* FilterSpec: the filter applied to every bounded message list.  A message *)
(* of the argument list carries its own position as content, so that a     *)
(* message of the result names the message of the argument it is.          *)

RoleLists == UNION {[1..k -> Roles] : k \in 0..MaxMsgs}

Numbered(roles) == [i \in 1..Len(roles) |-> Message(roles[i], i)]

FilterIdle ==
    /\ messages_in = <<>>
    /\ current_question_number = 0
    /\ questions_per_phase = 1
    /\ filtered_messages = <<>>
    /\ fpc = "idle"

RetryIdle ==
    /\ script = <<>>
    /\ wrapped = "none"
    /\ attempt = 0
    /\ delay = 0
    /\ last_exception = "None"
    /\ sleeps = <<>>
    /\ ncalls = 0
    /\ rpc = "idle"
    /\ raised = "None"

RaceIdle == inflight = <<>>

NumberingIdle ==
    /\ question_number = 0
    /\ numbering = <<>>
    /\ npc = "idle"

\* no executor job
NoJob == [pc |-> "none", task |-> "none", result |-> "None"]

ManagerIdle ==
    /\ instance = 0
    /\ objects = 0
    /\ returned = {}
    /\ initialized = "unset"
    /\ model = "unset"
    /\ tokenizer = "unset"
    /\ cpc = "idle"
    /\ tasks = <<>>
    /\ lock_holder = "none"
    /\ job = NoJob
    /\ loads_ok = 0

ServiceIdle ==
    /\ caller = "nobody"
    /\ sessions = <<>>
    /\ checkpoint = <<>>
    /\ questions = <<>>
    /\ answers = <<>>
    /\ last = <<>>
    /\ anomalies = 0

FilterInit ==
    /\ messages_in \in {Numbered(r) : r \in RoleLists}
    /\ current_question_number \in (-1)..(MaxMsgs \div 2 + 2)
    /\ questions_per_phase \in 1..MaxQ
    /\ filtered_messages = <<>>
    /\ fpc = "call"
    /\ RetryIdle
    /\ ServiceIdle
    /\ RaceIdle
    /\ NumberingIdle
    /\ ManagerIdle

FilterCall ==
    /\ fpc = "call"
    /\ filtered_messages' = FilterMessagesByPhase(messages_in,
                               current_question_number, questions_per_phase)
    /\ fpc' = "ret"
    /\ UNCHANGED <<messages_in, current_question_number, questions_per_phase>>
    /\ UNCHANGED <<varsRetry, varsService, varsRace, varsNumbering,
                varsManager>>

FilterNext == FilterCall

FilterSpec == FilterInit /\ [][FilterNext]_vars

---------------------------------------------------------------------------
(* Properties of the context windower (FilterSpec) *)

\* position in messages_in of the k-th message of the result
Origin(k) == filtered_messages[k].content

\* 1-based running index, among the assistant messages of messages_in, of the
\* assistant message that is the k-th message of the result
RunningIndex(k) == AssistantCount(messages_in, Origin(k))

\* position in the result of the message at position p of messages_in (0: none)
PlaceOf(p) ==
    IF \E k \in DOMAIN filtered_messages : Origin(k) = p
    THEN CHOOSE k \in DOMAIN filtered_messages : Origin(k) = p
    ELSE 0

IsPhaseStartNumber(n, Q) == n >= 1 /\ (n - 1) % Q = 0

StartsWithPairs(msgs, n) ==
    /\ Len(msgs) >= 2 * n
    /\ \A p \in 1..(2 * n) :
          msgs[p].role = (IF p % 2 = 1 THEN "assistant" ELSE "user")

\* C7: over a history of at least n alternating question/answer pairs the
\* result is exactly the pairs from the first question of n's phase up to and
\* including question n, in order, and nothing of an earlier phase.
C7_PairsOfCurrentPhase ==
    (/\ fpc = "ret"
     /\ current_question_number >= 1
     /\ StartsWithPairs(messages_in, current_question_number))
        => filtered_messages =
              SubSeq(messages_in,
                     2 * PhaseStartQuestion(current_question_number,
                                            questions_per_phase) - 1,
                     2 * current_question_number)

\* C7 witness: n = 3 with phase size 2 over three pairs yields pair 3 alone.
C7_Witness ==
    /\ fpc = "ret"
    /\ current_question_number = 3
    /\ questions_per_phase = 2
    /\ StartsWithPairs(messages_in, 3)
    /\ Len(filtered_messages) = 2
    /\ Origin(1) = 5
    /\ Origin(2) = 6

\* C8: the result is an order-preserving subsequence of the argument; every
\* user message of it immediately followed, in the argument, an included
\* assistant message; every included assistant message that is immediately
\* followed by a user message in the argument is immediately followed by that
\* user message in the result.
C8_AnswersPairedWithIncludedQuestions ==
    fpc = "ret" =>
        /\ \A k \in DOMAIN filtered_messages :
              /\ Origin(k) \in DOMAIN messages_in
              /\ filtered_messages[k] = messages_in[Origin(k)]
        /\ \A j, k \in DOMAIN filtered_messages :
              j < k => Origin(j) < Origin(k)
        /\ \A k \in DOMAIN filtered_messages :
              filtered_messages[k].role = "user" =>
                  /\ Origin(k) > 1
                  /\ messages_in[Origin(k) - 1].role = "assistant"
                  /\ PlaceOf(Origin(k) - 1) # 0
        /\ \A k \in DOMAIN filtered_messages :
              (/\ filtered_messages[k].role = "assistant"
               /\ Origin(k) < Len(messages_in)
               /\ messages_in[Origin(k) + 1].role = "user")
                  => /\ k < Len(filtered_messages)
                     /\ Origin(k + 1) = Origin(k) + 1

---------------------------------------------------------------------------
(* RetryPolicy: retry_on_llm_error around _generate_question_with_retry and *)
(* _generate_option_with_retry                                             *)

MAX_RETRIES == 3
RETRY_DELAY == 1
BACKOFF_MULTIPLIER == 2

\* What one invocation of the LLM port does: it returns a text, or it raises
\* an exception.  Of the exception's message only the two substrings the
\* wrapped methods look for (in the lowercased message) matter.
Markers == {"rate limit", "timeout"}

PortOutcomes ==
    {[ok |-> TRUE, text |-> {}]}
    \cup {[ok |-> FALSE, text |-> t] : t \in SUBSET Markers}

\* the except branch of the wrapped method: the class it raises for the
\* port's exception
Classify(method, text) ==
    IF "rate limit" \in text THEN "LLMRateLimitError"
    ELSE IF "timeout" \in text THEN "LLMTimeoutError"
    ELSE "LLMError"

\* the except clauses of the wrapper that go on to a retry
RetryableAny(cls) == TRUE

Retryable(cls) == cls \in {"LLMRateLimitError", "LLMTimeoutError"}

\* `if attempt < MAX_RETRIES - 1`
MayRetryOnceMore(a) == a < MAX_RETRIES

MayRetry(a) == a < MAX_RETRIES - 1

\* `delay *= BACKOFF_MULTIPLIER`
NextDelay(d) == d * BACKOFF_MULTIPLIER

RetryInit ==
    /\ script \in [1..MaxCalls -> PortOutcomes]
    /\ wrapped \in {"question", "options"}
    /\ attempt = 0
    /\ delay = RETRY_DELAY
    /\ last_exception = "None"
    /\ sleeps = <<>>
    /\ ncalls = 0
    /\ rpc = "running"
    /\ raised = "None"
    /\ FilterIdle
    /\ ServiceIdle
    /\ RaceIdle
    /\ NumberingIdle
    /\ ManagerIdle

\* the port is invoked in iteration `attempt` of the for loop
Invoking ==
    /\ rpc = "running"
    /\ attempt < MAX_RETRIES
    /\ ncalls < MaxCalls

\* `return func(*args, **kwargs)`
AttemptReturns ==
    /\ Invoking
    /\ script[ncalls + 1].ok
    /\ ncalls' = ncalls + 1
    /\ rpc' = "returned"
    /\ UNCHANGED <<script, wrapped, attempt, delay, last_exception, sleeps,
                   raised>>
    /\ UNCHANGED <<varsFilter, varsService, varsRace, varsNumbering,
                varsManager>>

\* the wrapped method raised an exception of class cls
AttemptFails(cls) ==
    /\ Invoking
    /\ ~script[ncalls + 1].ok
    /\ Classify(wrapped, script[ncalls + 1].text) = cls
    /\ ncalls' = ncalls + 1
    /\ IF Retryable(cls)
       THEN /\ last_exception' = cls
            /\ IF MayRetry(attempt)
               THEN /\ sleeps' = Append(sleeps, delay)
                    /\ delay' = NextDelay(delay)
                    /\ attempt' = attempt + 1
                    \* a loop that runs out ends in `raise last_exception`
                    /\ IF attempt + 1 < MAX_RETRIES
                       THEN rpc' = "running" /\ raised' = raised
                       ELSE rpc' = "raised" /\ raised' = cls
               ELSE /\ rpc' = "raised"
                    /\ raised' = cls
                    /\ UNCHANGED <<sleeps, delay, attempt>>
       ELSE /\ rpc' = "raised"
            /\ raised' = cls
            /\ UNCHANGED <<last_exception, sleeps, delay, attempt>>
    /\ UNCHANGED <<script, wrapped>>
    /\ UNCHANGED <<varsFilter, varsService, varsRace, varsNumbering,
                varsManager>>

AttemptRateLimit == AttemptFails("LLMRateLimitError")

AttemptTimeout == AttemptFails("LLMTimeoutError")

AttemptLLMError == AttemptFails("LLMError")

RetryNext ==
    \/ AttemptReturns
    \/ AttemptRateLimit
    \/ AttemptTimeout
    \/ AttemptLLMError

RetrySpec == RetryInit /\ [][RetryNext]_vars

---------------------------------------------------------------------------
(* Properties of the retry wrapper (RetrySpec) *)

\* the i-th invocation of the port failed with a rate limit or a timeout
TransientAt(i) ==
    /\ ~script[i].ok
    /\ Classify(wrapped, script[i].text)
           \in {"LLMRateLimitError", "LLMTimeoutError"}

\* the i-th invocation of the port failed with any other error
OtherAt(i) ==
    /\ ~script[i].ok
    /\ Classify(wrapped, script[i].text) = "LLMError"

\* C9: with only rate-limit and timeout failures the call is attempted at
\* most 3 times; k failures then a success return after exactly k sleeps of
\* 1s then 2s; three failures raise the last classified error after exactly
\* 2 sleeps.
C9_TransientBackoff ==
    /\ ncalls <= 3
    /\ (rpc = "returned" /\ \A i \in 1..(ncalls - 1) : TransientAt(i))
           => /\ ncalls - 1 \in 0..2
              /\ script[ncalls].ok
              /\ sleeps = SubSeq(<<1, 2>>, 1, ncalls - 1)
    /\ (rpc # "running" /\ \A i \in 1..3 : TransientAt(i))
           => /\ rpc = "raised"
              /\ ncalls = 3
              /\ sleeps = <<1, 2>>
              /\ raised = Classify(wrapped, script[3].text)

\* C9 witness: a rate limit, then a timeout, then a success.
C9_Witness ==
    /\ rpc = "returned"
    /\ ncalls = 3
    /\ Classify(wrapped, script[1].text) = "LLMRateLimitError"
    /\ Classify(wrapped, script[2].text) = "LLMTimeoutError"
    /\ sleeps = <<1, 2>>

\* C10: an attempt that fails with an error classified Other ends the call at
\* once: the error is raised, no further attempt is made and nothing is
\* slept after it, also when rate limits or timeouts came before it.
C10_OtherFailsAtOnce ==
    \A i \in 1..ncalls :
        OtherAt(i) => /\ rpc = "raised"
                      /\ raised = "LLMError"
                      /\ ncalls = i
                      /\ Len(sleeps) = i - 1

\* C10 witness: a timeout, then an Other error, raised after the one sleep
\* that preceded it.
C10_Witness ==
    /\ rpc = "raised"
    /\ raised = "LLMError"
    /\ ncalls = 2
    /\ TransientAt(1)
    /\ OtherAt(2)
    /\ sleeps = <<1>>

---------------------------------------------------------------------------
(* ChatState, sessions and the question repository *)

\* LangGraphDriver(questions_per_phase=10), as the DI container builds it
QUESTIONS_PER_PHASE == 10
\* `% 4` of run_workflow: the number of personality elements
ELEMENT_COUNT == 4
\* num_options of _generate_options_node
NUM_OPTIONS == 3
\* the threshold of the standard flow in process_user_response and
\* complete_assessment
STANDARD_TOTAL_QUESTIONS == 20
\* DataCollectionService.QUESTIONS_PER_SET, TOTAL_SETS, TOTAL_QUESTIONS
QUESTIONS_PER_SET == 10
TOTAL_SETS == 5
TOTAL_QUESTIONS == QUESTIONS_PER_SET * TOTAL_SETS

DataCollectionUser == "data_collection_user"

Users == {"alice", DataCollectionUser}

\* what get_state yields for a thread without checkpoint, read through the
\* defaults of the .get calls
EmptyState ==
    [exists |-> FALSE,
     phase |-> "ask",
     messages |-> <<>>,
     personality_element_id |-> 1,
     next_display_order |-> 0,
     pending_question |-> "None",
     options |-> <<>>]

\* ElementsDriver.get_initial_question: the pool of the element, the id
\* clamped into 1..4
ElementIndex(id) ==
    IF id < 1 THEN 1 ELSE IF id > ELEMENT_COUNT THEN ELEMENT_COUNT ELSE id

InitialQuestions(id) ==
    CASE ElementIndex(id) = 1 -> {"initial question (energy)"}
      [] ElementIndex(id) = 2 -> {"initial question (mind)"}
      [] ElementIndex(id) = 3 -> {"initial question (nature)"}
      [] OTHER -> {"initial question (tactics)"}

\* texts the LLM port returns (a non-empty text)
GeneratedQuestions == {"generated question"}

\* the text generate_options returns for the history of the round asking
\* question number n, given the options generated so far
OptionText(n, existing_options) ==
    [round |-> n,
     text |-> CASE Len(existing_options) = 0 -> "option a"
                [] Len(existing_options) = 1 -> "option b"
                [] OTHER -> "option c"]

\* the personality_element_id run_workflow puts into the input state of a
\* continued conversation
ElementOfOrder(order) ==
    ((order \div QUESTIONS_PER_PHASE) % ELEMENT_COUNT) + 1

\* is_first_question_of_phase of _generate_question_node
IsFirstQuestionOfPhaseOnlyZero(current_order) ==
    current_order = 0

IsFirstQuestionOfPhase(current_order) ==
    current_order = 0 \/ current_order % QUESTIONS_PER_PHASE = 0

---------------------------------------------------------------------------
(* LangGraphDriver.run_workflow: the input state, then the two nodes.  The  *)
(* graph is compiled with a checkpointer: the channel values are           *)
(* checkpointed once the input is applied (messages through the            *)
(* add_messages reducer, every other key overwritten) and again after each *)
(* node that returns; a node that raises leaves the latest checkpoint.     *)

\* what the retry wrapper raises in the end: an LLMError or a subclass of it
LLMErrorClasses == {"LLMError"}

NoFault == [at |-> "none", cls |-> "None"]

Faults ==
    {NoFault}
    \cup {[at |-> a, cls |-> c] :
            a \in {"generate_question", "option 1", "option 2", "option 3"},
            c \in LLMErrorClasses}
    \cup {[at |-> a, cls |-> "RuntimeError"] :
            a \in {"save_question", "save_answer"}}

\* the state run_workflow hands to graph.invoke
InputState(existing_state, user_messages, personality_element_id) ==
    IF existing_state.exists
    THEN [exists |-> TRUE,
          phase |-> existing_state.phase,
          messages |-> user_messages,
          personality_element_id |->
              ElementOfOrder(existing_state.next_display_order),
          next_display_order |-> existing_state.next_display_order,
          pending_question |-> existing_state.pending_question,
          options |-> existing_state.options]
    ELSE [exists |-> TRUE,
          phase |-> "ask",
          messages |-> user_messages,
          personality_element_id |-> personality_element_id,
          next_display_order |-> 0,
          pending_question |-> "None",
          options |-> <<>>]

\* the channel values after the input is applied to the checkpoint
ApplyInput(existing_state, input) ==
    [input EXCEPT !.messages = existing_state.messages \o input.messages]

\* next_display_order returned by _generate_question_node
NextOrderSame(current_order) == current_order

NextOrder(current_order) == current_order + 1

\* texts _generate_question_node may come to produce in this state
QuestionTexts(state) ==
    IF IsFirstQuestionOfPhase(state.next_display_order)
    THEN InitialQuestions(state.personality_element_id)
    ELSE GeneratedQuestions

\* whether the fault can strike in a round started from this state
FaultApplies(state, fault) ==
    CASE fault.at = "generate_question" ->
            ~IsFirstQuestionOfPhase(state.next_display_order)
      [] fault.at = "save_answer" ->
            /\ ~IsFirstQuestionOfPhase(state.next_display_order)
            /\ Len(state.messages) > 0
            /\ state.next_display_order > 0
      [] OTHER -> TRUE

QuestionRow(session_id, element_id, order, question) ==
    [session_id |-> session_id,
     personality_element_id |-> element_id,
     display_order |-> order,
     question |-> question]

\* what the question node did: the generation calls it made, the element it
\* generated for, the row it saved
NodeTrace(state, calls, saved) ==
    [order |-> state.next_display_order,
     canned |-> IsFirstQuestionOfPhase(state.next_display_order),
     element |-> state.personality_element_id,
     question_calls |-> calls,
     saved |-> saved]

\* the update the question node returns, applied to the channels
QuestionUpdate(state, question) ==
    [state EXCEPT
        !.messages = Append(@, Message("assistant", question)),
        !.pending_question = question,
        !.next_display_order = NextOrder(@)]

\* _generate_question_node on the channel values `state`
GenerateQuestionNode(state, qs, ans, session_id, fault, question) ==
    LET order == state.next_display_order
        row == QuestionRow(session_id, state.personality_element_id, order,
                           question)
        qid == Len(qs) + 1
        has_answer == Len(state.messages) > 0 /\ order > 0
        failed(calls, qs1, saved) ==
            [ok |-> FALSE, state |-> state, questions |-> qs1,
             answers |-> ans, trace |-> NodeTrace(state, calls, saved)]
    IN  IF IsFirstQuestionOfPhase(order)
        THEN \* a canned initial question: no generation call, no answer saved
             IF fault.at = "save_question"
             THEN failed(0, qs, 0)
             ELSE [ok |-> TRUE,
                   state |-> QuestionUpdate(state, question),
                   questions |-> Append(qs, row),
                   answers |-> ans,
                   trace |-> NodeTrace(state, 0, qid)]
        ELSE IF fault.at = "generate_question"
             THEN failed(1, qs, 0)
             ELSE IF fault.at = "save_question"
             THEN failed(1, qs, 0)
             ELSE IF fault.at = "save_answer" /\ has_answer
             THEN failed(1, Append(qs, row), qid)
             ELSE [ok |-> TRUE,
                   state |-> QuestionUpdate(state, question),
                   questions |-> Append(qs, row),
                   answers |->
                       IF has_answer
                       THEN Append(ans,
                                [question_id |-> qid,
                                 answer_text |->
                                     state.messages[Len(state.messages)].content])
                       ELSE ans,
                   trace |-> NodeTrace(state, 1, qid)]

\* the options generated before the fault strikes, or all NUM_OPTIONS;
\* received: the existing_options each call was given
RECURSIVE OptionsLoop(_, _, _, _, _)
OptionsLoop(i, options_list, received, n, fault) ==
    IF i > NUM_OPTIONS
    THEN [ok |-> TRUE, list |-> options_list, calls |-> i - 1,
          received |-> received]
    ELSE IF fault.at = <<"option 1", "option 2", "option 3">>[i]
         THEN [ok |-> FALSE, list |-> options_list, calls |-> i,
               received |-> Append(received, options_list)]
         ELSE OptionsLoop(i + 1,
                          Append(options_list, OptionText(n, options_list)),
                          Append(received, options_list), n, fault)

\* get_options: `state["options"][0]`, [] without options
GetOptions(state) ==
    IF Len(state.options) > 0 THEN state.options[1] ELSE <<>>

\* _generate_options_node: `return {"options": [options_list]}`
OptionsUpdateAccumulating(state, options_list) ==
    [state EXCEPT !.options = Append(@, options_list)]

OptionsUpdate(state, options_list) ==
    [state EXCEPT !.options = <<options_list>>]

\* graph.invoke of run_workflow: the latest checkpoint, the repository and
\* the trace of the calls made
RunWorkflow(existing_state, qs, ans, session_id, user_input, personality_element_id, fault, question) ==
    LET user_messages ==
            IF user_input # "" THEN <<Message("user", user_input)>> ELSE <<>>
        input == ApplyInput(existing_state,
                            InputState(existing_state, user_messages,
                                       personality_element_id))
        qn == GenerateQuestionNode(input, qs, ans, session_id, fault, question)
        ol == OptionsLoop(1, <<>>, <<>>, qn.state.next_display_order, fault)
    IN  IF ~qn.ok
        THEN [ok |-> FALSE, state |-> input, questions |-> qn.questions,
              answers |-> qn.answers, trace |-> qn.trace, option_calls |-> 0,
              options |-> <<>>, received |-> <<>>, question |-> "None"]
        ELSE IF ~ol.ok
        THEN [ok |-> FALSE, state |-> qn.state, questions |-> qn.questions,
              answers |-> qn.answers, trace |-> qn.trace,
              option_calls |-> ol.calls, options |-> ol.list,
              received |-> ol.received, question |-> question]
        ELSE [ok |-> TRUE, state |-> OptionsUpdate(qn.state, ol.list),
              questions |-> qn.questions, answers |-> qn.answers,
              trace |-> qn.trace, option_calls |-> ol.calls,
              options |-> ol.list, received |-> ol.received,
              question |-> question]

---------------------------------------------------------------------------
(* MBTIConversationService *)

\* steps values the undo route passes through
UndoSteps == {-1, 0, 1, 2}

\* element_id values start_conversation is called with (0: None)
ElementSeeds == {0, 3}

UserInputs == {"", "answer"}

IsDataCollection(user_id) == user_id = DataCollectionUser

\* SessionRepository.get_session_by_user: the in_progress sessions of the user
InProgress(user_id) ==
    {sid \in DOMAIN sessions :
        /\ sessions[sid].user_id = user_id
        /\ sessions[sid].status = "in_progress"}

\* SessionRepository.close_session
CloseSessionKeepsStatus(rows, sid) == rows

CloseSession(rows, sid) ==
    [rows EXCEPT ![sid].status = "completed"]

\* the completion threshold of process_user_response
TotalQuestions(user_id) ==
    IF IsDataCollection(user_id) THEN TOTAL_QUESTIONS
    ELSE STANDARD_TOTAL_QUESTIONS

\* `if next_order >= 20` / is_data_collection_complete(next_order)
IsCompleteOneLater(user_id, next_order) ==
    next_order > TotalQuestions(user_id)

\* a threshold that no order reaches
IsCompleteNever(user_id, next_order) == FALSE

IsComplete(user_id, next_order) ==
    next_order >= TotalQuestions(user_id)

Min(a, b) == IF a < b THEN a ELSE b

Max(a, b) == IF a > b THEN a ELSE b

\* progress = min(completed_questions / total_questions, 1.0), as the
\* fraction num / den
Progress(completed_questions, total_questions) ==
    [num |-> Min(completed_questions, total_questions),
     den |-> total_questions]

\* what a service call did and returned
Reply(op, outcome, error, sid) ==
    [op |-> op,
     outcome |-> outcome,     \* "question" | "diagnosis" | "closed" | "undone" | "error"
     error |-> error,         \* class of the exception raised, or "None"
     cause |-> "None",        \* class of the failure behind a wrapped error
     error_type |-> "None",   \* `error_type` in the details of the error
     session_id |-> sid,
     ran |-> FALSE,           \* whether the workflow was executed
     order |-> -1,            \* the order the question node ran at
     canned |-> FALSE,        \* whether it took the initial-question branch
     element |-> 0,           \* the element it generated for
     question_calls |-> 0,    \* question-generation calls made
     saved |-> 0,             \* id of the question row saved (0: none)
     option_calls |-> 0,      \* option-generation calls made
     options |-> <<>>,        \* the options they returned, in order
     received |-> <<>>,       \* the existing_options each of them was given
     question |-> "None",
     answered |-> 0,
     element_id |-> 0,        \* the element_id the call was given (0: None)
     steps |-> 0,             \* the steps undo_last_answer was given
     state_written |-> FALSE, \* whether it called update_conversation_state
     required |-> 0,          \* required_questions of AssessmentIncompleteError
     message |-> "None",      \* message of the error result of a read
     force |-> FALSE,         \* the force complete_assessment was given
     progress |-> [num |-> 0, den |-> 1],  \* `progress`, as a fraction
     question_number |-> 0,   \* `question_number` of a question result
     total_questions |-> 0,   \* `total_questions` of a question result
     history |-> <<>>]        \* `history` of get_conversation_history

\* the exception a workflow node raises for a failure of class cls inside
\* it: its `except Exception` turns every failure into the node's error,
\* which run_workflow re-raises as it is
NodeError(cls) == "QuestionGenerationError"

\* the exception execute_conversation_flow raises for a failure of class
\* cls of run_workflow: `except Exception as e: raise RuntimeError(...)`
GatewayError(cls) == "RuntimeError"

\* a service whose operations let every failure pass as it is
ServiceErrorUnwrapped(op, cls) == cls

\* the exception the operation op of the service raises for a failure of
\* class cls inside it: the classes its first except clause lists (and the
\* classes derived from them) pass, every other one becomes AssessmentError
ServiceError(op, cls) ==
    LET listed ==
            IF op \in {"start", "process"}
            THEN {"SessionNotFoundError", "AssessmentError", "WorkflowError",
                  "InvalidResponseError", "QuestionGenerationError",
                  "AssessmentIncompleteError", "LLMError",
                  "LLMRateLimitError", "LLMTimeoutError"}
            ELSE IF op = "complete"
            THEN {"SessionNotFoundError", "AssessmentIncompleteError"}
            ELSE {"SessionNotFoundError", "InvalidResponseError"}
    IN  IF cls \in listed THEN cls ELSE "AssessmentError"

\* the reply of a call that executed the workflow
RoundReply(op, sid, wf, fault) ==
    [Reply(op, IF wf.ok THEN "question" ELSE "error",
           IF wf.ok THEN "None"
           ELSE ServiceError(op, GatewayError(NodeError(fault.cls))), sid)
     EXCEPT !.cause = fault.cls,
            !.error_type = IF wf.ok THEN "None"
                           ELSE GatewayError(NodeError(fault.cls)),
            !.ran = TRUE,
            !.order = wf.trace.order,
            !.canned = wf.trace.canned,
            !.element = wf.trace.element,
            !.question_calls = wf.trace.question_calls,
            !.saved = wf.trace.saved,
            !.option_calls = wf.option_calls,
            !.options = wf.options,
            !.received = wf.received,
            !.question = wf.question]

Init ==
    /\ caller \in Users
    /\ sessions = <<>>
    /\ checkpoint = <<>>
    /\ questions = <<>>
    /\ answers = <<>>
    /\ last = Reply("none", "none", "None", 0)
    /\ anomalies = 0
    /\ FilterIdle
    /\ RetryIdle
    /\ RaceIdle
    /\ NumberingIdle
    /\ ManagerIdle

Rest == UNCHANGED <<caller, varsFilter, varsRetry, varsRace, varsNumbering,
                varsManager>>

\* the bound on anomalies leaves room for n more
CanAfford(n) ==
    anomalies + n <= (IF IsDataCollection(caller)
                      THEN MaxAnomaliesDataCollection ELSE MaxAnomalies)

FaultCost(fault) == IF fault = NoFault THEN 0 ELSE 1

\* closing the session sid now is an anomaly unless it reached its threshold
CloseCost(sid) ==
    IF sid = 0 \/ IsComplete(caller, checkpoint[sid].next_display_order)
    THEN 0 ELSE 1

\* so is a session after the first
SessionCost == IF sessions = <<>> THEN 0 ELSE 1

\* start_conversation, an in_progress session of a standard user: resumed
StartResume ==
    /\ ~IsDataCollection(caller)
    /\ \E sid \in InProgress(caller) :
          LET messages == checkpoint[sid].messages
          IN  last' = IF messages = <<>>
                      THEN Reply("start", "error", "InvalidResponseError", sid)
                      ELSE [Reply("start", "question", "None", sid)
                            EXCEPT !.question = messages[Len(messages)].content]
    /\ UNCHANGED <<sessions, checkpoint, questions, answers, anomalies>>
    /\ Rest

\* start_conversation past the lookup: a session is created (the session
\* prior closed first, 0: none) and one round runs on it
StartSession(prior, element_id, fault) ==
    LET sid == Len(sessions) + 1
        seed == IF IsDataCollection(caller) /\ element_id # 0
                THEN element_id ELSE 1
        input == ApplyInput(EmptyState, InputState(EmptyState, <<>>, seed))
    IN  /\ FaultApplies(input, fault)
        /\ \E question \in QuestionTexts(input) :
              LET wf == RunWorkflow(EmptyState, questions, answers,
                                    sid, "", seed, fault, question)
              IN  /\ sessions' =
                       Append(IF prior = 0 THEN sessions
                              ELSE CloseSession(sessions, prior),
                              [user_id |-> caller,
                               status |-> "in_progress"])
                  /\ checkpoint' = Append(checkpoint, wf.state)
                  /\ questions' = wf.questions
                  /\ answers' = wf.answers
                  /\ last' = [RoundReply("start", sid, wf, fault)
                              EXCEPT !.element_id = element_id]

\* start_conversation, otherwise: a session is created (the data collection
\* user's in_progress session closed first) and one round runs on it
StartNew(element_id, fault) ==
    /\ \E prior \in InProgress(caller) \cup {0} :
          /\ prior = 0 <=> InProgress(caller) = {}
          /\ prior # 0 => IsDataCollection(caller)
          /\ CanAfford(FaultCost(fault) + CloseCost(prior) + SessionCost)
          /\ anomalies' = anomalies + FaultCost(fault) + CloseCost(prior)
                                    + SessionCost
          /\ StartSession(prior, element_id, fault)
    /\ Rest

\* any operation that requires an in_progress session, without one
NoSession(op) ==
    /\ InProgress(caller) = {}
    /\ last' = Reply(op, "error", "SessionNotFoundError", 0)
    /\ UNCHANGED <<sessions, checkpoint, questions, answers, anomalies>>
    /\ Rest

ProcessNoSession == NoSession("process")

\* any of the four operations while the session query fails: the driver
\* raises QueryError, SessionRepositoryGateway.get_session_by_user raises
\* RuntimeError("Failed to get session: ...") for it, and the operation
\* hands that to its except clauses before it has changed anything
SessionLookupFails(op) ==
    /\ CanAfford(1)
    /\ last' = [Reply(op, "error", ServiceError(op, "RuntimeError"), 0)
                EXCEPT !.cause = "QueryError",
                       !.error_type = "RuntimeError"]
    /\ anomalies' = anomalies + 1
    /\ UNCHANGED <<sessions, checkpoint, questions, answers>>
    /\ Rest

\* process_user_response once the threshold is reached
ProcessDiagnosis ==
    /\ \E sid \in InProgress(caller) :
          /\ IsComplete(caller, checkpoint[sid].next_display_order)
          /\ last' = Reply("process", "diagnosis", "None", sid)
    /\ UNCHANGED <<sessions, checkpoint, questions, answers, anomalies>>
    /\ Rest

\* process_user_response below the threshold, past the lookup: one round
RoundOn(sid, user_input, fault) ==
    LET existing_state == checkpoint[sid]
        user_messages ==
            IF user_input # "" THEN <<Message("user", user_input)>>
            ELSE <<>>
        input == ApplyInput(existing_state,
                            InputState(existing_state, user_messages, 1))
    IN  /\ ~IsComplete(caller, existing_state.next_display_order)
        /\ FaultApplies(input, fault)
        /\ \E question \in QuestionTexts(input) :
              LET wf == RunWorkflow(existing_state, questions, answers,
                                    sid, user_input, 1, fault, question)
              IN  /\ checkpoint' = [checkpoint EXCEPT ![sid] = wf.state]
                  /\ questions' = wf.questions
                  /\ answers' = wf.answers
                  /\ last' =
                       IF wf.ok
                       THEN LET next_order == wf.state.next_display_order
                                total_questions == TotalQuestions(caller)
                            IN  [RoundReply("process", sid, wf, fault) EXCEPT
                                   !.progress =
                                      Progress(Max(next_order, 0),
                                               total_questions),
                                   !.question_number =
                                      Min(Max(next_order, 1), total_questions),
                                   !.total_questions = total_questions]
                       ELSE RoundReply("process", sid, wf, fault)
        /\ UNCHANGED sessions

\* process_user_response below the threshold: one round
ProcessRound(user_input, fault) ==
    /\ CanAfford(FaultCost(fault) + (IF user_input = "" THEN 1 ELSE 0))
    /\ \E sid \in InProgress(caller) : RoundOn(sid, user_input, fault)
    /\ anomalies' = anomalies + FaultCost(fault)
                              + (IF user_input = "" THEN 1 ELSE 0)
    /\ Rest

CompleteNoSession == NoSession("complete")

\* complete_assessment of a standard user before the threshold
CompleteIncomplete ==
    /\ ~IsDataCollection(caller)
    /\ \E sid \in InProgress(caller) :
          /\ checkpoint[sid].next_display_order < STANDARD_TOTAL_QUESTIONS
          /\ last' = [Reply("complete", "error", "AssessmentIncompleteError",
                            sid)
                      EXCEPT !.answered = checkpoint[sid].next_display_order,
                             !.required = STANDARD_TOTAL_QUESTIONS]
    /\ UNCHANGED <<sessions, checkpoint, questions, answers, anomalies>>
    /\ Rest

\* complete_assessment closing the session
CompleteCloses ==
    /\ \E sid \in InProgress(caller) :
          /\ \/ IsDataCollection(caller)
             \/ checkpoint[sid].next_display_order >= STANDARD_TOTAL_QUESTIONS
          /\ CanAfford(CloseCost(sid))
          /\ anomalies' = anomalies + CloseCost(sid)
          /\ sessions' = CloseSession(sessions, sid)
          /\ last' = [Reply("complete", "closed", "None", sid)
                      EXCEPT !.answered = checkpoint[sid].next_display_order]
    /\ UNCHANGED <<checkpoint, questions, answers>>
    /\ Rest

UndoNoSession == NoSession("undo")

\* `if next_order < steps` of undo_last_answer
UndoTooFarByTwo(next_order, steps) == next_order + 1 < steps

UndoTooFar(next_order, steps) == next_order < steps

\* undo_last_answer with `next_order < steps`
UndoRejected(steps) ==
    /\ \E sid \in InProgress(caller) :
          /\ UndoTooFar(checkpoint[sid].next_display_order, steps)
          /\ last' = [Reply("undo", "error", "InvalidResponseError", sid)
                      EXCEPT !.steps = steps]
    /\ UNCHANGED <<sessions, checkpoint, questions, answers, anomalies>>
    /\ Rest

\* the state undo_last_answer hands to update_state, as the reducers apply it
UndoStateKeepsOrder(current_state, steps) ==
    [current_state EXCEPT
        !.messages = SubSeq(@, 1, Len(@) - (IF steps * 2 < Len(@)
                                            THEN steps * 2 ELSE Len(@)))]

UndoStateOneMessagePerStep(current_state, steps) ==
    LET messages == current_state.messages
        actual_messages_to_remove ==
            IF steps < Len(messages) THEN steps ELSE Len(messages)
    IN  [current_state EXCEPT
            !.messages = IF actual_messages_to_remove > 0
                         THEN SubSeq(messages, 1,
                                     Len(messages) - actual_messages_to_remove)
                         ELSE messages,
            !.next_display_order = @ - steps]

UndoStateThreePerStep(current_state, steps) ==
    LET messages == current_state.messages
        actual_messages_to_remove ==
            IF steps * 3 < Len(messages) THEN steps * 3 ELSE Len(messages)
    IN  [current_state EXCEPT
            !.messages = SubSeq(messages, 1,
                                Len(messages) - actual_messages_to_remove),
            !.next_display_order = @ - steps]

UndoState(current_state, steps) ==
    LET messages == current_state.messages
        messages_to_remove == steps * 2
        actual_messages_to_remove ==
            IF messages_to_remove < Len(messages) THEN messages_to_remove
            ELSE Len(messages)
    IN  [current_state EXCEPT
            !.messages = IF actual_messages_to_remove > 0
                         THEN SubSeq(messages, 1,
                                     Len(messages) - actual_messages_to_remove)
                         ELSE messages,
            !.next_display_order = @ - steps]

\* undo_last_answer otherwise, past the lookup
UndoOn(sid, steps) ==
    /\ ~UndoTooFar(checkpoint[sid].next_display_order, steps)
    /\ checkpoint' = [checkpoint EXCEPT
                         ![sid] = UndoState(checkpoint[sid], steps)]
    /\ last' = [Reply("undo", "undone", "None", sid)
                EXCEPT !.steps = steps, !.state_written = TRUE]
    /\ UNCHANGED <<sessions, questions, answers>>

\* undo_last_answer otherwise
UndoApplies(steps) ==
    /\ CanAfford(1)
    /\ \E sid \in InProgress(caller) : UndoOn(sid, steps)
    /\ anomalies' = anomalies + 1
    /\ Rest

Next ==
    \/ StartResume
    \/ \E e \in ElementSeeds, f \in Faults :
          /\ (e # 0 => IsDataCollection(caller))
          /\ StartNew(e, f)
    \/ ProcessNoSession
    \/ ProcessDiagnosis
    \/ \E i \in UserInputs, f \in Faults : ProcessRound(i, f)
    \/ CompleteNoSession
    \/ CompleteIncomplete
    \/ CompleteCloses
    \/ UndoNoSession
    \/ \E n \in UndoSteps : UndoRejected(n)
    \/ \E n \in UndoSteps : UndoApplies(n)

Spec == Init /\ [][Next]_vars

\* the same service over a database whose session query may fail
FailureNext ==
    \/ Next
    \/ \E op \in {"start", "process", "complete", "undo"} :
          SessionLookupFails(op)

FailureSpec == Init /\ [][FailureNext]_vars

---------------------------------------------------------------------------
(* Properties of the rounds of MBTIConversationService *)

\* the persisted state of the session before the call last' replies to
StateBefore(sid) ==
    IF sid \in DOMAIN checkpoint THEN checkpoint[sid] ELSE EmptyState

\* C1: every round of an unseeded session, run at order o, takes the canned
\* initial-question branch, with no question-generation call, if and only if
\* o % Q = 0, and generates for and saves with the element (o \div Q) % 4 + 1.
C1_PhaseStartAndElement ==
    (last.ran /\ last.element_id = 0) =>
        LET o == last.order
            phase_start == o % QUESTIONS_PER_PHASE = 0
            element == ((o \div QUESTIONS_PER_PHASE) % ELEMENT_COUNT) + 1
        IN  /\ o >= 0
            /\ last.canned <=> phase_start
            /\ last.question_calls = (IF phase_start THEN 0 ELSE 1)
            /\ last.element = element
            /\ last.question # "None" =>
                   (last.question \in InitialQuestions(element) <=> phase_start)
            /\ last.saved # 0 =>
                   /\ questions[last.saved].personality_element_id = element
                   /\ questions[last.saved].display_order = o
                   /\ questions[last.saved].session_id = last.session_id

\* the round at order 30 of an unseeded session: the canned question of
\* element 4, saved with element 4
C1_Witness ==
    /\ last.ran /\ last.element_id = 0 /\ last.outcome = "question"
    /\ last.order = 3 * QUESTIONS_PER_PHASE
    /\ last.question_calls = 0
    /\ questions[last.saved].personality_element_id = 4

\* C2: process_user_response on a session whose next_display_order has
\* reached the threshold returns the diagnosis phase, makes no question or
\* option generation call and leaves the persisted state and the records as
\* they are; and no round leaves next_display_order above the threshold.
C2_DiagnosisAtThreshold ==
    [][/\ (/\ last'.op = "process"
           /\ \E sid \in InProgress(caller) :
                 checkpoint[sid].next_display_order >= TotalQuestions(caller))
          => /\ last'.outcome = "diagnosis"
             /\ ~last'.ran
             /\ last'.question_calls = 0 /\ last'.option_calls = 0
             /\ <<sessions, checkpoint, questions, answers>>' =
                    <<sessions, checkpoint, questions, answers>>
       /\ last'.ran =>
             checkpoint'[last'.session_id].next_display_order
                 <= TotalQuestions(caller)]_vars

\* the diagnosis reply of a session at its threshold
C2_Witness ==
    /\ last.op = "process" /\ last.outcome = "diagnosis"
    /\ last.session_id \in InProgress(caller)
    /\ checkpoint[last.session_id].next_display_order = TotalQuestions(caller)

\* C3: a round that fails (question generation, option generation or a
\* repository write) leaves the persisted state of the session and the
\* question and answer records exactly as they were before the round.
C3_FailedRoundIsAtomic ==
    [][(last'.ran /\ last'.outcome = "error") =>
          /\ questions' = questions
          /\ answers' = answers
          /\ last'.op = "process" => checkpoint' = checkpoint]_vars

\* C4: every successful round appends exactly one assistant message, the
\* question produced, after the user's message if there is one, sets
\* pending_question to the same text and adds exactly 1 to next_display_order.
C4_SuccessfulRoundAdvancesByOne ==
    [][(last'.ran /\ last'.outcome = "question") =>
          LET before == StateBefore(last'.session_id)
              after == checkpoint'[last'.session_id]
              n == Len(before.messages)
              m == Len(after.messages)
          IN  /\ after.next_display_order = before.next_display_order + 1
              /\ after.pending_question = last'.question
              /\ m \in {n + 1, n + 2}
              /\ SubSeq(after.messages, 1, n) = before.messages
              /\ after.messages[m] = Message("assistant", last'.question)
              /\ AssistantCount(after.messages, m)
                     = AssistantCount(before.messages, n) + 1]_vars

\* successful rounds of both branches: a generated question that follows an
\* answer, in a session whose history holds a canned one
C4_Witness ==
    /\ last.ran /\ last.outcome = "question" /\ last.op = "process"
    /\ ~last.canned /\ last.question \in GeneratedQuestions
    /\ LET messages == checkpoint[last.session_id].messages
       IN  /\ Len(messages) >= 3
           /\ messages[1].content \in InitialQuestions(1)
           /\ messages[Len(messages) - 1].role = "user"
           /\ checkpoint[last.session_id].pending_question
                  = messages[Len(messages)].content

---------------------------------------------------------------------------
(* Properties of undo_last_answer *)

\* the step is an undo_last_answer call that went through with steps >= 1
UndoneStep ==
    last'.op = "undo" /\ last'.outcome = "undone" /\ last'.steps >= 1

C12_UndoTooFarChangesNothing ==
    [][(/\ last'.op = "undo"
        /\ \E sid \in InProgress(caller) :
              last'.steps > checkpoint[sid].next_display_order)
          => /\ last'.outcome = "error"
             /\ last'.error = "InvalidResponseError"
             /\ ~last'.state_written
             /\ UNCHANGED <<sessions, checkpoint, questions, answers>>]_vars

\* C12 witness: undo of 2 steps refused at order 1, the first question still
\* the whole history
C12_Witness ==
    /\ last.op = "undo" /\ last.error = "InvalidResponseError"
    /\ last.steps = 2
    /\ last.session_id \in InProgress(caller)
    /\ checkpoint[last.session_id].next_display_order = 1
    /\ Len(checkpoint[last.session_id].messages) = 1

---------------------------------------------------------------------------
(* Properties of complete_assessment and of the sessions *)

\* the total of a standard assessment: every element's phase asked once
ScheduledTotal == QUESTIONS_PER_PHASE * ELEMENT_COUNT

\* C13: complete_assessment of a standard user whose session has answered
\* fewer than total questions raises AssessmentIncompleteError carrying the
\* answered and the required count and leaves the session in_progress; with
\* at least total it closes the session and returns the answered count.
C13_CompleteRequiresTotal ==
    [][(/\ last'.op = "complete"
        /\ ~IsDataCollection(caller)
        /\ InProgress(caller) # {})
          => \A sid \in InProgress(caller) :
                LET answered == checkpoint[sid].next_display_order
                IN  IF answered < ScheduledTotal
                    THEN /\ last'.error = "AssessmentIncompleteError"
                         /\ last'.answered = answered
                         /\ last'.required = ScheduledTotal
                         /\ sessions' = sessions
                    ELSE /\ last'.outcome = "closed"
                         /\ last'.answered = answered
                         /\ sessions'[sid].status = "completed"]_vars

\* the same with the count the service compares with, 20
CompleteRequiresTwenty ==
    [][(/\ last'.op = "complete"
        /\ ~IsDataCollection(caller)
        /\ InProgress(caller) # {})
          => \A sid \in InProgress(caller) :
                LET answered == checkpoint[sid].next_display_order
                IN  IF answered < STANDARD_TOTAL_QUESTIONS
                    THEN /\ last'.error = "AssessmentIncompleteError"
                         /\ last'.answered = answered
                         /\ last'.required = STANDARD_TOTAL_QUESTIONS
                         /\ sessions' = sessions
                    ELSE /\ last'.outcome = "closed"
                         /\ last'.answered = answered
                         /\ sessions'[sid].status = "completed"]_vars

---------------------------------------------------------------------------
(* The data collection user: every start_conversation restarts *)

DataCollectionInit ==
    /\ caller = DataCollectionUser
    /\ sessions = <<>>
    /\ checkpoint = <<>>
    /\ questions = <<>>
    /\ answers = <<>>
    /\ last = Reply("none", "none", "None", 0)
    /\ anomalies = 0
    /\ FilterIdle
    /\ RetryIdle
    /\ RaceIdle
    /\ NumberingIdle
    /\ ManagerIdle

\* start_conversation: the in_progress session, if any, is closed
DataCollectionStart(element_id, fault) ==
    /\ Len(sessions) <= MaxRestarts
    /\ \E prior \in InProgress(caller) \cup {0} :
          /\ prior = 0 <=> InProgress(caller) = {}
          /\ StartSession(prior, element_id, fault)
    /\ UNCHANGED anomalies
    /\ Rest

\* process_user_response, the generation calls succeeding
DataCollectionRound(user_input) ==
    /\ \E sid \in InProgress(caller) :
          /\ checkpoint[sid].next_display_order <= MaxRounds
          /\ RoundOn(sid, user_input, NoFault)
    /\ UNCHANGED anomalies
    /\ Rest

DataCollectionNext ==
    \/ \E e \in ElementSeeds, f \in Faults : DataCollectionStart(e, f)
    \/ \E u \in UserInputs : DataCollectionRound(u)

DataCollectionSpec == DataCollectionInit /\ [][DataCollectionNext]_vars

\* C17: start_conversation of the data collection user leaves exactly one
\* session of theirs in_progress, the new one, every earlier one closed; the
\* new session's first round ran at order 0 and, when it succeeded, leaves
\* next_display_order 1 and a history of the new first question alone.
C17_RestartIsFresh ==
    (last.op = "start" /\ IsDataCollection(caller)) =>
        LET sid == last.session_id
        IN  /\ sid = Len(sessions)
            /\ InProgress(caller) = {sid}
            /\ last.order = 0
            /\ last.outcome = "question" =>
                  /\ checkpoint[sid].next_display_order = 1
                  /\ checkpoint[sid].messages =
                        <<Message("assistant", last.question)>>

\* a restart that closed a session which had been answered
C17_Witness ==
    /\ last.op = "start"
    /\ last.outcome = "question"
    /\ IsDataCollection(caller)
    /\ Len(sessions) = 2
    /\ sessions[1].status = "completed"
    /\ checkpoint[1].next_display_order >= 2
    /\ Len(checkpoint[1].messages) >= 3
    /\ checkpoint[2].next_display_order = 1

---------------------------------------------------------------------------
(* One session driven by start_conversation, rounds that succeed on a
   non-empty answer, and undos of 1 <= steps <= next_display_order *)

ValidUndoSteps == {1, 2}

HistoryInit == Init

\* start_conversation of a user without session, the generation succeeding
HistoryStart(element_id) ==
    /\ sessions = <<>>
    /\ StartSession(0, element_id, NoFault)
    /\ UNCHANGED anomalies
    /\ Rest

\* process_user_response with an answer, the generation succeeding
HistoryRound ==
    /\ \E sid \in InProgress(caller) :
          /\ checkpoint[sid].next_display_order <= MaxRounds
          /\ RoundOn(sid, "answer", NoFault)
    /\ UNCHANGED anomalies
    /\ Rest

\* undo_last_answer; anomalies counts the undos
HistoryUndo(steps) ==
    /\ anomalies < MaxUndos
    /\ \E sid \in InProgress(caller) : UndoOn(sid, steps)
    /\ anomalies' = anomalies + 1
    /\ Rest

HistoryNext ==
    \/ \E e \in ElementSeeds : HistoryStart(e)
    \/ StartResume
    \/ HistoryRound
    \/ \E n \in ValidUndoSteps : HistoryUndo(n)

HistorySpec == HistoryInit /\ [][HistoryNext]_vars

RECURSIVE LastAssistantContent(_)
LastAssistantContent(messages) ==
    IF messages = <<>> THEN "None"
    ELSE IF messages[Len(messages)].role = "assistant"
         THEN messages[Len(messages)].content
         ELSE LastAssistantContent(SubSeq(messages, 1, Len(messages) - 1))

\* C16: start_conversation of a standard user who has an in_progress
\* session, whatever rounds and undos preceded, returns the pending question,
\* i.e. the content of the last assistant message of that session, without
\* running the workflow.
C16_ResumeReturnsPendingQuestion ==
    (last.op = "start" /\ ~IsDataCollection(caller) /\ ~last.ran) =>
        /\ last.outcome = "question"
        /\ last.question # "None"
        /\ last.question =
              LastAssistantContent(checkpoint[last.session_id].messages)

\* C23: every successful round makes exactly 3 option-generation calls, the
\* i-th given exactly the i-1 options produced before it in this round, and
\* leaves exactly the 3 options they returned as what get_options reads
\* from the state: the options of this round, none of an earlier one.
C23_ThreeOptionsOfThisRound ==
    (last.ran /\ last.outcome = "question") =>
        LET state == checkpoint[last.session_id]
        IN  /\ last.option_calls = 3
            /\ Len(last.options) = 3
            /\ Len(last.received) = 3
            /\ \A i \in 1..3 :
                  /\ last.received[i] = SubSeq(last.options, 1, i - 1)
                  /\ last.options[i].round = state.next_display_order
            /\ Len(state.options) = 1
            /\ GetOptions(state) = last.options

\* the second round of a session: its options replace those of the first
C23_Witness ==
    /\ last.op = "process"
    /\ last.outcome = "question"
    /\ last.order = 1
    /\ Len(GetOptions(checkpoint[last.session_id])) = 3
    /\ GetOptions(checkpoint[last.session_id])[3].round = 2

\* the answers the user has given so far in a history
RECURSIVE UserMessageCount(_)
UserMessageCount(messages) ==
    IF messages = <<>> THEN 0
    ELSE UserMessageCount(Tail(messages))
         + (IF Head(messages).role = "user" THEN 1 ELSE 0)

\* C22: every question result of process_user_response reports
\* progress = min(c / total, 1.0), c the number of questions the user has
\* answered so far in the session.
C22_ProgressIsAnsweredOverTotal ==
    (last.op = "process" /\ last.outcome = "question") =>
        last.progress =
            Progress(UserMessageCount(checkpoint[last.session_id].messages),
                     TotalQuestions(caller))

\* the progress reported lies within [0, 1]
ProgressWithinUnit ==
    /\ 0 <= last.progress.num
    /\ last.progress.num <= last.progress.den

\* what the code reports: the order after the round over the total
ProgressIsOrderOverTotal ==
    (last.op = "process" /\ last.outcome = "question") =>
        /\ checkpoint[last.session_id].next_display_order >= 0
        /\ last.progress =
              Progress(checkpoint[last.session_id].next_display_order,
                       TotalQuestions(caller))

\* C24: in the primary flow (no failure, no empty input, no undo) every
\* answer of the user is persisted as exactly one answer record, linked to
\* the question it answers: the k-th answer to the question with
\* display_order k - 1.
C24_AnswerLinkedToItsQuestion ==
    (anomalies = 0 /\ Len(checkpoint) = 1) =>
        /\ Len(answers) = UserMessageCount(checkpoint[1].messages)
        /\ \A k \in DOMAIN answers :
              questions[answers[k].question_id].display_order = k - 1

\* the answers persisted in the primary flow are those given in rounds that
\* do not start a phase
AnswerCountInPrimaryFlow ==
    (anomalies = 0 /\ Len(checkpoint) = 1) =>
        LET o == checkpoint[1].next_display_order
        IN  Len(answers) =
               IF o = 0 THEN 0
               ELSE (o - 1) - ((o - 1) \div QUESTIONS_PER_PHASE)

---------------------------------------------------------------------------
(* The session of HistorySpec, read between its operations by
   get_answer_options, get_conversation_progress and
   get_conversation_history *)

\* a get_conversation_progress that advanced the order it reads
GetConversationProgressAdvancing ==
    /\ \E sid \in InProgress(caller) :
          /\ checkpoint' =
                [checkpoint EXCEPT ![sid].next_display_order = @ + 1]
          /\ last' = Reply("progress", "data", "None", sid)
    /\ UNCHANGED <<sessions, questions, answers, anomalies>>
    /\ Rest

\* get_answer_options
GetAnswerOptions ==
    /\ IF InProgress(caller) = {}
       THEN last' = [Reply("options", "error", "None", 0)
                     EXCEPT !.message = "No active session found"]
       ELSE \E sid \in InProgress(caller) :
               last' = [Reply("options", "data", "None", sid)
                        EXCEPT !.options = GetOptions(checkpoint[sid])]
    /\ UNCHANGED <<sessions, checkpoint, questions, answers, anomalies>>
    /\ Rest

\* get_conversation_progress
GetConversationProgress ==
    /\ IF InProgress(caller) = {}
       THEN last' = [Reply("progress", "error", "None", 0)
                     EXCEPT !.message = "No active session found",
                            !.question_number = 1,
                            !.total_questions = STANDARD_TOTAL_QUESTIONS]
       ELSE \E sid \in InProgress(caller) :
               LET next_order == checkpoint[sid].next_display_order
               IN  last' = [Reply("progress", "data", "None", sid)
                            EXCEPT !.progress =
                                       Progress(next_order,
                                                STANDARD_TOTAL_QUESTIONS),
                                   !.question_number =
                                       Min(Max(next_order, 1),
                                           STANDARD_TOTAL_QUESTIONS),
                                   !.total_questions =
                                       STANDARD_TOTAL_QUESTIONS]
    /\ UNCHANGED <<sessions, checkpoint, questions, answers, anomalies>>
    /\ Rest

\* get_conversation_history
GetConversationHistory ==
    /\ IF InProgress(caller) = {}
       THEN last' = [Reply("history", "error", "None", 0)
                     EXCEPT !.message = "No active session found"]
       ELSE \E sid \in InProgress(caller) :
               LET messages == checkpoint[sid].messages
                   formatted_history ==
                       [i \in DOMAIN messages |->
                           [type |-> IF messages[i].role = "assistant"
                                     THEN "question" ELSE "answer",
                            text |-> messages[i].content,
                            role |-> messages[i].role]]
               IN  last' = [Reply("history", "data", "None", sid)
                            EXCEPT !.history = formatted_history]
    /\ UNCHANGED <<sessions, checkpoint, questions, answers, anomalies>>
    /\ Rest

ReadNext ==
    \/ HistoryNext
    \/ GetAnswerOptions
    \/ GetConversationProgress
    \/ GetConversationHistory

ReadSpec == HistoryInit /\ [][ReadNext]_vars

\* C28: a call of get_answer_options, get_conversation_progress or
\* get_conversation_history, in any state and however often repeated, leaves
\* next_display_order, the message history and the session status as they
\* were (and the question and answer records too).
C28_ReadsChangeNothing ==
    [][last'.op \in {"options", "progress", "history"} =>
          UNCHANGED <<sessions, checkpoint, questions, answers>>]_vars

\* a history read of a session that has been answered at least once
C28_Witness ==
    /\ last.op = "history"
    /\ Len(last.history) >= 3
    /\ \E sid \in InProgress(caller) :
          /\ checkpoint[sid].next_display_order >= 2
          /\ Len(last.history) = Len(checkpoint[sid].messages)

\* C29: every question record of the first phase of a session (orders 0 to
\* QUESTIONS_PER_PHASE - 1) carries the element the session was seeded
\* with, the one its canned question of order 0 was saved with.
C29_FirstPhaseKeepsSeed ==
    \A i, j \in DOMAIN questions :
        (/\ questions[i].session_id = questions[j].session_id
         /\ questions[i].display_order = 0
         /\ questions[j].display_order < QUESTIONS_PER_PHASE) =>
            questions[j].personality_element_id =
                questions[i].personality_element_id

\* the element the records of the first phase carry: the seed at order 0,
\* (order \div QUESTIONS_PER_PHASE) % ELEMENT_COUNT + 1 = 1 after it
FirstPhaseElementIsRecomputed ==
    \A j \in DOMAIN questions :
        (/\ questions[j].display_order > 0
         /\ questions[j].display_order < QUESTIONS_PER_PHASE) =>
            questions[j].personality_element_id = 1

\* the number of question records of session sid saved with element e
AskedFor(sid, e) ==
    Cardinality({i \in DOMAIN questions :
                    /\ questions[i].session_id = sid
                    /\ questions[i].personality_element_id = e})

\* C30: the threshold of a standard session is QUESTIONS_PER_PHASE *
\* ELEMENT_COUNT for the phase size of its scheduler, so when
\* process_user_response answers with the diagnosis the session has been asked
\* exactly QUESTIONS_PER_PHASE questions for each of the 4 elements.
C30_DiagnosisAfterEveryElement ==
    (/\ ~IsDataCollection(caller)
     /\ last.op = "process"
     /\ last.outcome = "diagnosis") =>
        /\ TotalQuestions(caller) = QUESTIONS_PER_PHASE * ELEMENT_COUNT
        /\ \A e \in 1..ELEMENT_COUNT :
              AskedFor(last.session_id, e) = QUESTIONS_PER_PHASE

\* what a standard session that met no anomaly has been asked when it
\* reaches the diagnosis: the phases of elements 1 and 2 only
DiagnosisAfterTwoElements ==
    (/\ ~IsDataCollection(caller)
     /\ anomalies = 0
     /\ last.op = "process"
     /\ last.outcome = "diagnosis") =>
        /\ checkpoint[last.session_id].next_display_order
              = STANDARD_TOTAL_QUESTIONS
        /\ AskedFor(last.session_id, 1) = QUESTIONS_PER_PHASE
        /\ AskedFor(last.session_id, 2) = QUESTIONS_PER_PHASE
        /\ AskedFor(last.session_id, 3) = 0
        /\ AskedFor(last.session_id, 4) = 0

---------------------------------------------------------------------------
(* One session from its start to the diagnosis: the user answers every
   question, a round may fail MaxFailedRounds times, nothing is undone *)

MaxFailedRounds == 1

\* process_user_response with an answer
LiveRound(fault) ==
    /\ anomalies + FaultCost(fault) <= MaxFailedRounds
    /\ \E sid \in InProgress(caller) : RoundOn(sid, "answer", fault)
    /\ anomalies' = anomalies + FaultCost(fault)
    /\ Rest

LiveNext ==
    \/ \E e \in ElementSeeds : HistoryStart(e)
    \/ \E f \in Faults : LiveRound(f)
    \/ ProcessDiagnosis

\* the guard of LiveRound(NoFault): an in_progress session below its
\* threshold
Answerable ==
    \E sid \in InProgress(caller) :
        ~IsComplete(caller, checkpoint[sid].next_display_order)

\* the generation succeeds in the end and the user keeps answering: weak
\* fairness of the round that succeeds (WF_vars(LiveRound(NoFault)), with
\* Answerable written for ENABLED) and of the call at the threshold
LiveSpec ==
    /\ Init
    /\ [][LiveNext]_vars
    /\ ([]<>(~Answerable) \/ []<><<LiveRound(NoFault)>>_vars)
    /\ WF_vars(ProcessDiagnosis)

C32_StoredElementFollowsOrder ==
    \A sid \in DOMAIN checkpoint :
        (/\ ~IsDataCollection(sessions[sid].user_id)
         /\ checkpoint[sid].next_display_order >= 1) =>
            checkpoint[sid].personality_element_id
                = ElementOfOrder(checkpoint[sid].next_display_order - 1)

\* the same for the sessions that met no anomaly (no failed round, no undo)
StoredElementFollowsOrderUntilUndo ==
    \A sid \in DOMAIN checkpoint :
        (/\ ~IsDataCollection(sessions[sid].user_id)
         /\ anomalies = 0
         /\ checkpoint[sid].next_display_order >= 1) =>
            checkpoint[sid].personality_element_id
                = ElementOfOrder(checkpoint[sid].next_display_order - 1)

\* the questions in a history
AssistantMessageCount(messages) ==
    Cardinality({i \in DOMAIN messages : messages[i].role = "assistant"})

\* C34: after any sequence of start_conversation, successful rounds with a
\* non-empty answer and undos with 1 <= steps <= next_display_order, the
\* history of every session holds next_display_order assistant messages.
C34_AssistantMessagesCountOrder ==
    \A sid \in DOMAIN checkpoint :
        AssistantMessageCount(checkpoint[sid].messages)
            = checkpoint[sid].next_display_order

\* a session answered again after an undo took it back to order 0: its
\* history starts with the answer, and still holds one question per order
C34_Witness ==
    /\ anomalies >= 1
    /\ \E sid \in DOMAIN checkpoint :
          /\ checkpoint[sid].next_display_order = 2
          /\ Len(checkpoint[sid].messages) = 4
          /\ checkpoint[sid].messages[1].role = "user"

\* C35: undo_last_answer, whatever integer steps it is given (0 and the
\* negative ones too), leaves next_display_order in 0..(the order before)
\* and adds no message.
C35_UndoNeverAdvances ==
    [][last'.op = "undo" =>
          \A sid \in DOMAIN checkpoint :
              /\ checkpoint'[sid].next_display_order
                    \in 0..checkpoint[sid].next_display_order
              /\ Len(checkpoint'[sid].messages)
                    <= Len(checkpoint[sid].messages)]_vars

\* what it does: the order goes down by steps, so up for steps < 0; it
\* stays >= 0 and no message is added
UndoSubtractsSteps ==
    [][(last'.op = "undo" /\ last'.outcome = "undone") =>
          LET sid == last'.session_id
          IN  /\ checkpoint'[sid].next_display_order
                    = checkpoint[sid].next_display_order - last'.steps
              /\ checkpoint'[sid].next_display_order >= 0
              /\ Len(checkpoint'[sid].messages)
                    <= Len(checkpoint[sid].messages)]_vars

\* whether pending_question and the options of a persisted state are those
\* of the question its history ends with (the options of the question of
\* display_order d are generated at next_display_order d + 1)
PendingIsLastQuestion(state) ==
    /\ state.pending_question = LastAssistantContent(state.messages)
    /\ \A i \in DOMAIN GetOptions(state) :
          GetOptions(state)[i].round = state.next_display_order

PendingIsLastQuestionUntilUndo ==
    \A sid \in DOMAIN checkpoint :
        anomalies = 0 => PendingIsLastQuestion(checkpoint[sid])

\* C37: when process_user_response answers with the diagnosis, the history
\* of the session holds one user answer for each of the questions asked, the
\* answer to the last of them included.
C37_EveryAnswerIsRecorded ==
    (last.op = "process" /\ last.outcome = "diagnosis") =>
        LET messages == checkpoint[last.session_id].messages
        IN  /\ UserMessageCount(messages) = AssistantMessageCount(messages)
            /\ UserMessageCount(messages) = TotalQuestions(caller)

\* what the history of a session that met no failed round holds then: every
\* question asked and every answer but the one to the last question
LastAnswerIsNotRecorded ==
    (last.op = "process" /\ last.outcome = "diagnosis" /\ anomalies = 0) =>
        LET messages == checkpoint[last.session_id].messages
        IN  /\ AssistantMessageCount(messages) = TotalQuestions(caller)
            /\ UserMessageCount(messages) = TotalQuestions(caller) - 1
            /\ messages[Len(messages)].role = "assistant"

\* whether a reply reports the progress of order n against total
ReportsProgress(reply, n, total) ==
    /\ reply.total_questions = total
    /\ reply.progress.num * total = Min(n, total) * reply.progress.den
    /\ reply.question_number = Min(Max(n, 1), total)

\* C38: for the data collection user get_conversation_progress and
\* process_user_response report the same for the same next_display_order n:
\* total_questions = 50, progress = min(n / 50, 1.0) and the same
\* question_number.
C38_ProgressReadAgreesWithRound ==
    (/\ IsDataCollection(caller)
     /\ last.op \in {"process", "progress"}
     /\ last.outcome \in {"question", "data"}) =>
        ReportsProgress(last,
                        checkpoint[last.session_id].next_display_order,
                        TOTAL_QUESTIONS)

\* what the two report: the round against the total of the user, the read
\* against 20 for every user
ProgressReadUsesTwenty ==
    /\ (last.op = "process" /\ last.outcome = "question") =>
          ReportsProgress(last,
                          checkpoint[last.session_id].next_display_order,
                          TotalQuestions(caller))
    /\ (last.op = "progress" /\ last.outcome = "data") =>
          ReportsProgress(last,
                          checkpoint[last.session_id].next_display_order,
                          STANDARD_TOTAL_QUESTIONS)

\* whether a history alternates between the two roles
Alternates(messages) ==
    \A i \in 1..(Len(messages) - 1) : messages[i].role # messages[i + 1].role

HistoryAlternatesToQuestion ==
    \A sid \in DOMAIN checkpoint :
        LET messages == checkpoint[sid].messages
        IN  messages # <<>> =>
               /\ Alternates(messages)
               /\ messages[Len(messages)].role = "assistant"

C26_GenerationFailureKeepsItsType ==
    (/\ last.op \in {"start", "process"}
     /\ last.ran
     /\ last.outcome = "error"
     /\ last.cause \in LLMErrorClasses) =>
        /\ last.error = last.cause
        /\ last.error # "AssessmentError"

\* C27: start_conversation, process_user_response, complete_assessment and
\* undo_last_answer let out only errors of the service's taxonomy; a failure
\* of any other class inside them (the RuntimeError of a gateway) comes out
\* as AssessmentError whose details name that class as error_type.
C27_UnknownErrorsBecomeAssessmentError ==
    last.op \in {"start", "process", "complete", "undo"} =>
        /\ last.error \in {"None", "SessionNotFoundError", "AssessmentError",
                            "InvalidResponseError",
                            "AssessmentIncompleteError"}
        /\ (last.cause \in {"QueryError", "RuntimeError"} \cup LLMErrorClasses)
              => /\ last.error = "AssessmentError"
                 /\ last.error_type = "RuntimeError"
        /\ last.error_type # "None" => last.error = "AssessmentError"

\* complete_assessment failed on the session query and reported it wrapped
C27_Witness ==
    /\ last.op = "complete"
    /\ last.cause = "QueryError"
    /\ last.error = "AssessmentError"
    /\ last.error_type = "RuntimeError"

\* what such a round hands to the caller: the generic assessment error,
\* naming the gateway's RuntimeError as the type it wrapped
GenerationFailureIsGeneric ==
    (/\ last.ran
     /\ last.outcome = "error") =>
        /\ last.error = "AssessmentError"
        /\ last.error_type = "RuntimeError"

---------------------------------------------------------------------------
(* MBTIConversationService of diagnosis-chat-api, for a standard user.  It  *)
(* differs from the service above in the session lookup                     *)
(* (get_sessions_by_user(user_id, status="in_progress"), a list), in the    *)
(* total (QUESTIONS_PER_PHASE * NUM_PHASES) and in the force argument of    *)
(* complete_assessment.  Its workflow port is given the LangGraphDriver     *)
(* modelled above.                                                          *)

CHAT_QUESTIONS_PER_PHASE == 5
NUM_PHASES == 4
CHAT_TOTAL_QUESTIONS == CHAT_QUESTIONS_PER_PHASE * NUM_PHASES

\* what get_sessions_by_user returns to a user without in_progress session:
\* the driver method is not part of the sources, the callers guard against
\* an empty list and against None
EmptyLookups == {"empty list", "None"}

\* the exception `[0]` raises on it
SubscriptError(lookup) ==
    IF lookup = "empty list" THEN "IndexError" ELSE "TypeError"

SubscriptMessage(lookup) ==
    IF lookup = "empty list" THEN "list index out of range"
    ELSE "'NoneType' object is not subscriptable"

ReadOps == {"options", "progress", "history"}

\* the message of the error result a read returns from its except clause
FailureMessage(op, lookup) ==
    (CASE op = "options" -> "Failed to get options: "
       [] op = "progress" -> "Failed to get progress: "
       [] OTHER -> "Failed to get conversation history: ")
    \o SubscriptMessage(lookup)

ForceValues == {FALSE, TRUE}

ChatIsComplete(next_order) == next_order >= CHAT_TOTAL_QUESTIONS

ChatCloseCost(sid) ==
    IF ChatIsComplete(checkpoint[sid].next_display_order) THEN 0 ELSE 1

ChatInit ==
    /\ caller = "alice"
    /\ sessions = <<>>
    /\ checkpoint = <<>>
    /\ questions = <<>>
    /\ answers = <<>>
    /\ last = Reply("none", "none", "None", 0)
    /\ anomalies = 0
    /\ FilterIdle
    /\ RetryIdle
    /\ RaceIdle
    /\ NumberingIdle
    /\ ManagerIdle

\* start_conversation with an in_progress session: resumed
ChatStartResume ==
    /\ \E sid \in InProgress(caller) :
          LET messages == checkpoint[sid].messages
          IN  last' = IF messages = <<>>
                      THEN Reply("start", "error", "InvalidResponseError", sid)
                      ELSE [Reply("start", "question", "None", sid)
                            EXCEPT !.question = messages[Len(messages)].content]
    /\ UNCHANGED <<sessions, checkpoint, questions, answers, anomalies>>
    /\ Rest

\* start_conversation without one: a session is created, one round runs
ChatStartNew ==
    /\ InProgress(caller) = {}
    /\ CanAfford(SessionCost)
    /\ anomalies' = anomalies + SessionCost
    /\ LET sid == Len(sessions) + 1
           input == ApplyInput(EmptyState, InputState(EmptyState, <<>>, 1))
       IN  \E question \in QuestionTexts(input) :
              LET wf == RunWorkflow(EmptyState, questions, answers, sid, "",
                                    1, NoFault, question)
              IN  /\ sessions' = Append(sessions,
                                        [user_id |-> caller,
                                         status |-> "in_progress"])
                  /\ checkpoint' = Append(checkpoint, wf.state)
                  /\ questions' = wf.questions
                  /\ answers' = wf.answers
                  /\ last' = RoundReply("start", sid, wf, NoFault)
    /\ Rest

\* process_user_response: `session_ids[0] if session_ids else None`
ChatProcessNoSession ==
    /\ InProgress(caller) = {}
    /\ last' = Reply("process", "error", "SessionNotFoundError", 0)
    /\ UNCHANGED <<sessions, checkpoint, questions, answers, anomalies>>
    /\ Rest

ChatProcessDiagnosis ==
    /\ \E sid \in InProgress(caller) :
          /\ ChatIsComplete(checkpoint[sid].next_display_order)
          /\ last' = Reply("process", "diagnosis", "None", sid)
    /\ UNCHANGED <<sessions, checkpoint, questions, answers, anomalies>>
    /\ Rest

ChatProcessRound ==
    /\ \E sid \in InProgress(caller) :
          LET existing_state == checkpoint[sid]
              input == ApplyInput(existing_state,
                                  InputState(existing_state,
                                             <<Message("user", "answer")>>, 1))
          IN  /\ ~ChatIsComplete(existing_state.next_display_order)
              /\ \E question \in QuestionTexts(input) :
                    LET wf == RunWorkflow(existing_state, questions, answers,
                                          sid, "answer", 1, NoFault, question)
                    IN  /\ checkpoint' = [checkpoint EXCEPT ![sid] = wf.state]
                        /\ questions' = wf.questions
                        /\ answers' = wf.answers
                        /\ last' = RoundReply("process", sid, wf, NoFault)
    /\ UNCHANGED <<sessions, anomalies>>
    /\ Rest

\* a call that subscripts the lookup, `get_sessions_by_user(...)[0]`, for a
\* user without in_progress session: complete_assessment and undo_last_answer
\* wrap the exception, the reads return it in an error result
ChatSubscriptFails(op, lookup) ==
    /\ InProgress(caller) = {}
    /\ last' = IF op \in ReadOps
               THEN [Reply(op, "error", "None", 0)
                     EXCEPT !.cause = SubscriptError(lookup),
                            !.message = FailureMessage(op, lookup)]
               ELSE [Reply(op, "error", "AssessmentError", 0)
                     EXCEPT !.cause = SubscriptError(lookup)]
    /\ UNCHANGED <<sessions, checkpoint, questions, answers, anomalies>>
    /\ Rest

ChatCompleteNoSession(lookup) == ChatSubscriptFails("complete", lookup)

\* complete_assessment: `if not force and answered_questions < TOTAL_QUESTIONS`
ChatCompleteIncomplete ==
    /\ \E sid \in InProgress(caller) :
          /\ checkpoint[sid].next_display_order < CHAT_TOTAL_QUESTIONS
          /\ last' = [Reply("complete", "error", "AssessmentIncompleteError",
                            sid)
                      EXCEPT !.answered = checkpoint[sid].next_display_order,
                             !.required = CHAT_TOTAL_QUESTIONS]
    /\ UNCHANGED <<sessions, checkpoint, questions, answers, anomalies>>
    /\ Rest

ChatCompleteCloses(force) ==
    /\ \E sid \in InProgress(caller) :
          /\ \/ force
             \/ ~(checkpoint[sid].next_display_order < CHAT_TOTAL_QUESTIONS)
          /\ CanAfford(ChatCloseCost(sid))
          /\ anomalies' = anomalies + ChatCloseCost(sid)
          /\ sessions' = CloseSession(sessions, sid)
          /\ last' = [Reply("complete", "closed", "None", sid)
                      EXCEPT !.answered = checkpoint[sid].next_display_order,
                             !.force = force]
    /\ UNCHANGED <<checkpoint, questions, answers>>
    /\ Rest

ChatUndoNoSession(lookup) == ChatSubscriptFails("undo", lookup)

ChatUndoRejected(steps) ==
    /\ \E sid \in InProgress(caller) :
          /\ UndoTooFar(checkpoint[sid].next_display_order, steps)
          /\ last' = [Reply("undo", "error", "InvalidResponseError", sid)
                      EXCEPT !.steps = steps]
    /\ UNCHANGED <<sessions, checkpoint, questions, answers, anomalies>>
    /\ Rest

ChatUndoApplies(steps) ==
    /\ CanAfford(1)
    /\ \E sid \in InProgress(caller) :
          /\ ~UndoTooFar(checkpoint[sid].next_display_order, steps)
          /\ checkpoint' = [checkpoint EXCEPT
                               ![sid] = UndoState(checkpoint[sid], steps)]
          /\ last' = [Reply("undo", "undone", "None", sid)
                      EXCEPT !.steps = steps, !.state_written = TRUE]
    /\ anomalies' = anomalies + 1
    /\ UNCHANGED <<sessions, questions, answers>>
    /\ Rest

\* get_answer_options, get_conversation_progress, get_conversation_history
ChatReadNoSession(op, lookup) ==
    /\ op \in ReadOps
    /\ ChatSubscriptFails(op, lookup)

ChatRead(op) ==
    /\ op \in ReadOps
    /\ \E sid \in InProgress(caller) :
          last' = [Reply(op, "data", "None", sid)
                   EXCEPT !.answered = checkpoint[sid].next_display_order]
    /\ UNCHANGED <<sessions, checkpoint, questions, answers, anomalies>>
    /\ Rest

ChatNext ==
    \/ ChatStartResume
    \/ ChatStartNew
    \/ ChatProcessNoSession
    \/ ChatProcessDiagnosis
    \/ ChatProcessRound
    \/ \E l \in EmptyLookups : ChatCompleteNoSession(l)
    \/ ChatCompleteIncomplete
    \/ \E f \in ForceValues : ChatCompleteCloses(f)
    \/ \E l \in EmptyLookups : ChatUndoNoSession(l)
    \/ \E n \in UndoSteps : ChatUndoRejected(n)
    \/ \E n \in UndoSteps : ChatUndoApplies(n)
    \/ \E op \in ReadOps, l \in EmptyLookups : ChatReadNoSession(op, l)
    \/ \E op \in ReadOps : ChatRead(op)

ChatSpec == ChatInit /\ [][ChatNext]_vars

---------------------------------------------------------------------------
(* Properties of the sessions of the chat-api service *)

\* C14: a session of a standard user whose status is completed has
\* next_display_order >= total; no sequence of operations, whatever the
\* arguments of complete_assessment, closes it before that.
C14_CompletedOnlyAtTotal ==
    \A sid \in DOMAIN sessions :
        sessions[sid].status = "completed" =>
            checkpoint[sid].next_display_order >= CHAT_TOTAL_QUESTIONS

\* C18: process_user_response, complete_assessment and undo_last_answer,
\* called for a user without an in_progress session, raise
\* SessionNotFoundError and no other exception.
C18_NoSessionRaisesSessionNotFound ==
    (/\ last.op \in {"process", "complete", "undo"}
     /\ last.outcome = "error"
     /\ last.session_id = 0) =>
        last.error = "SessionNotFoundError"

\* C19: get_answer_options, get_conversation_progress and
\* get_conversation_history, called for a user whose only session is closed,
\* return the error result with the message "No active session found".
C19_ReadOfClosedSaysNoActiveSession ==
    (/\ last.op \in ReadOps
     /\ InProgress(caller) = {}
     /\ \E sid \in DOMAIN sessions : sessions[sid].status = "completed") =>
        /\ last.outcome = "error"
        /\ last.message = "No active session found"

\* closed is terminal: no step returns a session to in_progress or changes
\* the state checkpointed for it
ClosedIsTerminal ==
    [][\A sid \in DOMAIN sessions :
          sessions[sid].status = "completed" =>
             /\ sessions'[sid].status = "completed"
             /\ checkpoint'[sid] = checkpoint[sid]]_vars

---------------------------------------------------------------------------
(* start_conversation of the ai-api service, statement by statement, in
   workers that share the database: get_session_by_user_id and
   create_session are separate statements, each committed on its own, on a
   table without a constraint on (user_id, status) *)

Workers == {"w1", "w2"}

IdleCall ==
    [pc |-> "idle",            \* the statement the call is about to execute
     user_id |-> "nobody",
     existing_session |-> 0,   \* local `existing_session` (0: None)
     session_id |-> 0,         \* local `session_id`
     outcome |-> "none",       \* what the latest call of the worker returned
     starts |-> 0]             \* calls the worker has taken so far

RaceInit ==
    /\ inflight = [w \in Workers |-> IdleCall]
    /\ caller = "nobody"
    /\ sessions = <<>>
    /\ checkpoint = <<>>
    /\ questions = <<>>
    /\ answers = <<>>
    /\ last = Reply("none", "none", "None", 0)
    /\ anomalies = 0
    /\ FilterIdle
    /\ RetryIdle
    /\ NumberingIdle
    /\ ManagerIdle

RaceRest == UNCHANGED <<caller, last, anomalies, varsFilter, varsRetry,
                        varsNumbering,
                varsManager>>

\* a worker takes a start_conversation request
RaceCall(w, user_id) ==
    /\ inflight[w].pc = "idle"
    /\ inflight[w].starts < MaxStarts
    /\ inflight' = [inflight EXCEPT ![w] =
                      [IdleCall EXCEPT !.pc = "lookup",
                                       !.user_id = user_id,
                                       !.starts = inflight[w].starts + 1]]
    /\ UNCHANGED <<sessions, checkpoint, questions, answers>>
    /\ RaceRest

\* existing_session = get_session_by_user(user_id): fetchone of the SELECT
RaceLookup(w) ==
    /\ inflight[w].pc = "lookup"
    /\ LET user_id == inflight[w].user_id
       IN  \E sid \in InProgress(user_id) \cup {0} :
              /\ sid = 0 <=> InProgress(user_id) = {}
              /\ inflight' = [inflight EXCEPT
                    ![w].existing_session = sid,
                    ![w].pc = IF sid = 0 THEN "create"
                              ELSE IF IsDataCollection(user_id) THEN "close"
                              ELSE "resume"]
    /\ UNCHANGED <<sessions, checkpoint, questions, answers>>
    /\ RaceRest

\* close_session(existing_session) of the data collection branch
RaceClose(w) ==
    /\ inflight[w].pc = "close"
    /\ sessions' = CloseSession(sessions, inflight[w].existing_session)
    /\ inflight' = [inflight EXCEPT ![w].pc = "create"]
    /\ UNCHANGED <<checkpoint, questions, answers>>
    /\ RaceRest

\* session_id = create_session(user_id): the INSERT and its commit
RaceCreate(w) ==
    /\ inflight[w].pc = "create"
    /\ sessions' = Append(sessions, [user_id |-> inflight[w].user_id,
                                     status |-> "in_progress"])
    /\ checkpoint' = Append(checkpoint, EmptyState)
    /\ inflight' = [inflight EXCEPT ![w].session_id = Len(sessions) + 1,
                                    ![w].pc = "round"]
    /\ UNCHANGED <<questions, answers>>
    /\ RaceRest

\* the resume branch: the last message of the session found is returned
RaceResume(w) ==
    /\ inflight[w].pc = "resume"
    /\ LET messages == checkpoint[inflight[w].existing_session].messages
       IN  inflight' = [inflight EXCEPT
              ![w].session_id = inflight[w].existing_session,
              ![w].outcome = IF messages = <<>> THEN "InvalidResponseError"
                             ELSE "resumed",
              ![w].pc = "idle"]
    /\ UNCHANGED <<sessions, checkpoint, questions, answers>>
    /\ RaceRest

\* execute_conversation_flow("", session_id, user_id) on the new session
RaceRound(w) ==
    /\ inflight[w].pc = "round"
    /\ LET sid == inflight[w].session_id
           input == ApplyInput(checkpoint[sid],
                               InputState(checkpoint[sid], <<>>, 1))
       IN  \E question \in QuestionTexts(input) :
              LET wf == RunWorkflow(checkpoint[sid], questions, answers, sid,
                                    "", 1, NoFault, question)
              IN  /\ checkpoint' = [checkpoint EXCEPT ![sid] = wf.state]
                  /\ questions' = wf.questions
                  /\ answers' = wf.answers
    /\ inflight' = [inflight EXCEPT ![w].outcome = "started",
                                    ![w].pc = "idle"]
    /\ UNCHANGED sessions
    /\ RaceRest

RaceNext ==
    \/ \E w \in Workers, user_id \in Users : RaceCall(w, user_id)
    \/ \E w \in Workers : RaceLookup(w)
    \/ \E w \in Workers : RaceClose(w)
    \/ \E w \in Workers : RaceCreate(w)
    \/ \E w \in Workers : RaceResume(w)
    \/ \E w \in Workers : RaceRound(w)

RaceSpec == RaceInit /\ [][RaceNext]_vars

---------------------------------------------------------------------------
(* Properties of start_conversation calls in flight together *)

\* C15: at any time a user other than the data collection user has at most
\* one session whose status is in_progress, under every interleaving of two
\* start_conversation calls for that user.
C15_AtMostOneInProgress ==
    \A user_id \in Users \ {DataCollectionUser} :
        Cardinality(InProgress(user_id)) <= 1

---------------------------------------------------------------------------
(* DataCollectionService: the 1-based numbering of the data collection *)

\* calculate_personality_element_id
CalculatePersonalityElementIdZeroBased(n) ==
    IF n <= 0 THEN 1
    ELSE ((n \div QUESTIONS_PER_SET) % ELEMENT_COUNT) + 1

CalculatePersonalityElementId(n) ==
    IF n <= 0 THEN 1
    ELSE (((n - 1) \div QUESTIONS_PER_SET) % ELEMENT_COUNT) + 1

\* is_first_question_of_element_set
IsFirstQuestionOfElementSet(n) ==
    IF n <= 0 THEN TRUE
    ELSE (n - 1) % QUESTIONS_PER_SET = 0

NumberingInit ==
    /\ question_number \in (-MaxQuestionNumber)..MaxQuestionNumber
    /\ numbering = <<>>
    /\ npc = "call"
    /\ FilterIdle
    /\ RetryIdle
    /\ ServiceIdle
    /\ RaceIdle
    /\ ManagerIdle

NumberingCall ==
    /\ npc = "call"
    /\ numbering' =
          [element_id |-> CalculatePersonalityElementId(question_number),
           is_first |-> IsFirstQuestionOfElementSet(question_number)]
    /\ npc' = "ret"
    /\ UNCHANGED question_number
    /\ UNCHANGED <<varsFilter, varsRetry, varsService, varsRace, varsManager>>

NumberingNext == NumberingCall

NumberingSpec == NumberingInit /\ [][NumberingNext]_vars

\* C21: for every order o >= 0 the data collection numbering at question
\* o + 1 agrees with the scheduler at order o: the element is
\* (o \div 10) % 4 + 1 and the question is the first of its set iff
\* o % 10 = 0; a question number <= 0 is the first question of element 1;
\* questions 1..50 have the elements 1, 2, 3, 4, 1 in blocks of ten.
C21_NumberingsAgree ==
    npc = "ret" =>
        LET n == question_number
            o == n - 1
        IN  /\ o >= 0 =>
                 /\ numbering.element_id = ((o \div 10) % 4) + 1
                 /\ numbering.element_id = ElementOfOrder(o)
                 /\ numbering.is_first <=> (o % 10 = 0)
                 /\ numbering.is_first <=> IsFirstQuestionOfPhase(o)
            /\ n <= 0 =>
                 /\ numbering.element_id = 1
                 /\ numbering.is_first
            /\ n \in 1..50 =>
                 numbering.element_id = <<1, 2, 3, 4, 1>>[(o \div 10) + 1]

\* question 41, the first of the fifth set, is back at element 1
C21_Witness ==
    /\ npc = "ret"
    /\ question_number = 41
    /\ numbering.element_id = 1
    /\ numbering.is_first

\* C33: the element process_user_response calculates for the data
\* collection user, calculate_personality_element_id called with the 0-based
\* order o = next_display_order itself, is the element the workflow uses for
\* the question at order o, (o \div 10) % 4 + 1, for every o in 0..49; the
\* phase boundaries 10, 20, 30, 40 included.
C33_CalculatedElementIsUsed ==
    (npc = "ret" /\ question_number \in 0..(TOTAL_QUESTIONS - 1)) =>
        numbering.element_id = ElementOfOrder(question_number)

\* where the two agree: everywhere but at the orders 10, 20, 30, 40, at
\* which the calculation still yields the element of the phase before
CalculatedElementLagsAtBoundaries ==
    (npc = "ret" /\ question_number \in 0..(TOTAL_QUESTIONS - 1)) =>
        LET o == question_number
        IN  IF o > 0 /\ o % QUESTIONS_PER_SET = 0
            THEN numbering.element_id = ElementOfOrder(o - 1)
                 /\ numbering.element_id # ElementOfOrder(o)
            ELSE numbering.element_id = ElementOfOrder(o)

---------------------------------------------------------------------------
(* GPUModelManager of diagnosis-summary-api, for one model name.  The
   constructions and the load_model coroutines run on the event loop thread,
   one at a time; a coroutine gives the thread up only where it waits for
   the lock or for the executor.  _load_sync runs on an executor thread and
   interleaves with the event loop thread statement by statement. *)

\* the load_model calls
LoadTasks == {"t1", "t2"}

IdleTask == [pc |-> "idle", result |-> "None"]

ManagerInit ==
    /\ instance = 0
    /\ objects = 0
    /\ returned = {}
    /\ initialized = "unset"
    /\ model = "unset"
    /\ tokenizer = "unset"
    /\ cpc = "idle"
    /\ tasks = [t \in LoadTasks |-> IdleTask]
    /\ lock_holder = "none"
    /\ job = NoJob
    /\ loads_ok = 0
    /\ FilterIdle
    /\ RetryIdle
    /\ ServiceIdle
    /\ RaceIdle
    /\ NumberingIdle

ManagerRest ==
    UNCHANGED <<varsFilter, varsRetry, varsService, varsRace, varsNumbering>>

\* GPUModelManager(name), __new__: a new object is allocated and
\* _instances.setdefault stores it unless the name has one; the object of the
\* name is what the construction returns, and __init__ starts on it
GPUModelManagerNew ==
    /\ cpc = "idle"
    /\ objects < MaxConstructions
    /\ objects' = objects + 1
    /\ instance' = IF instance = 0 THEN objects + 1 ELSE instance
    /\ returned' = returned \cup {instance'}
    /\ cpc' = "check"
    /\ UNCHANGED <<initialized, model, tokenizer, tasks, lock_holder, job,
                   loads_ok>>
    /\ ManagerRest

\* __init__, statement by statement: the `initialized` test, then
\* self.model = None, self.tokenizer = None, self.initialized = False
GPUModelManagerInit ==
    /\ cpc # "idle"
    /\ CASE cpc = "check" ->
              /\ cpc' = IF initialized = "True" THEN "idle" ELSE "model"
              /\ UNCHANGED <<initialized, model, tokenizer>>
         [] cpc = "model" ->
              /\ model' = "None"
              /\ cpc' = "tokenizer"
              /\ UNCHANGED <<initialized, tokenizer>>
         [] cpc = "tokenizer" ->
              /\ tokenizer' = "None"
              /\ cpc' = "initialized"
              /\ UNCHANGED <<initialized, model>>
         [] OTHER ->
              /\ initialized' = "False"
              /\ cpc' = "idle"
              /\ UNCHANGED <<model, tokenizer>>
    /\ UNCHANGED <<instance, objects, returned, tasks, lock_holder, job,
                   loads_ok>>
    /\ ManagerRest

\* the call past both `initialized` tests with the lock taken: _load_sync
\* is handed to the executor and the call waits for it
SubmitLoad(t) ==
    /\ lock_holder' = t
    /\ job' = [pc |-> "tokenizer", task |-> t, result |-> "None"]
    /\ tasks' = [tasks EXCEPT ![t].pc = "await"]

\* load_model, from the call to its first wait or its return
LoadModel(t) ==
    /\ cpc = "idle"
    /\ instance # 0
    /\ initialized # "unset"
    /\ tasks[t].pc = "idle"
    /\ IF initialized = "True"
       THEN /\ tasks' = [tasks EXCEPT ![t] = [pc |-> "done",
                                               result |-> "True"]]
            /\ UNCHANGED <<lock_holder, job>>
       ELSE IF lock_holder = "none"
            THEN SubmitLoad(t)
            ELSE /\ tasks' = [tasks EXCEPT ![t].pc = "lock"]
                 /\ UNCHANGED <<lock_holder, job>>
    /\ UNCHANGED <<instance, objects, returned, initialized, model,
                   tokenizer, cpc, loads_ok>>
    /\ ManagerRest

\* load_model, resumed with the lock: the second `initialized` test
LoadModelLocked(t) ==
    /\ cpc = "idle"
    /\ tasks[t].pc = "lock"
    /\ lock_holder = "none"
    /\ IF initialized = "True"
       THEN /\ tasks' = [tasks EXCEPT ![t] = [pc |-> "done",
                                               result |-> "True"]]
            /\ UNCHANGED <<lock_holder, job>>
       ELSE SubmitLoad(t)
    /\ UNCHANGED <<instance, objects, returned, initialized, model,
                   tokenizer, cpc, loads_ok>>
    /\ ManagerRest

\* _load_sync on the executor thread, statement by statement: the
\* tokenizer, the model, self.model.eval() (an AttributeError, caught, if
\* self.model is None by then), self.initialized = True
LoadSync ==
    /\ job.pc \in {"tokenizer", "model", "eval", "initialized"}
    /\ CASE job.pc = "tokenizer" ->
              /\ tokenizer' = "loaded"
              /\ job' = [job EXCEPT !.pc = "model"]
              /\ UNCHANGED <<initialized, model, loads_ok>>
         [] job.pc = "model" ->
              /\ model' = "loaded"
              /\ job' = [job EXCEPT !.pc = "eval"]
              /\ UNCHANGED <<initialized, tokenizer, loads_ok>>
         [] job.pc = "eval" ->
              /\ job' = IF model = "loaded"
                        THEN [job EXCEPT !.pc = "initialized"]
                        ELSE [job EXCEPT !.pc = "finished",
                                         !.result = "False"]
              /\ UNCHANGED <<initialized, model, tokenizer, loads_ok>>
         [] OTHER ->
              /\ initialized' = "True"
              /\ job' = [job EXCEPT !.pc = "finished", !.result = "True"]
              /\ loads_ok' = loads_ok + 1
              /\ UNCHANGED <<model, tokenizer>>
    /\ UNCHANGED <<instance, objects, returned, cpc, tasks, lock_holder>>
    /\ ManagerRest

\* _load_sync whose from_pretrained raises: the except clause returns False
LoadSyncFails ==
    /\ job.pc \in {"tokenizer", "model"}
    /\ job' = [job EXCEPT !.pc = "finished", !.result = "False"]
    /\ UNCHANGED <<instance, objects, returned, initialized, model,
                   tokenizer, cpc, tasks, lock_holder, loads_ok>>
    /\ ManagerRest

\* load_model, resumed with the result of the executor: it returns it and
\* leaves the lock and the semaphore
LoadModelReturns(t) ==
    /\ cpc = "idle"
    /\ tasks[t].pc = "await"
    /\ job.pc = "finished"
    /\ job.task = t
    /\ tasks' = [tasks EXCEPT ![t] = [pc |-> "done", result |-> job.result]]
    /\ lock_holder' = "none"
    /\ job' = NoJob
    /\ UNCHANGED <<instance, objects, returned, initialized, model,
                   tokenizer, cpc, loads_ok>>
    /\ ManagerRest

ManagerNext ==
    \/ GPUModelManagerNew
    \/ GPUModelManagerInit
    \/ \E t \in LoadTasks : LoadModel(t)
    \/ \E t \in LoadTasks : LoadModelLocked(t)
    \/ LoadSync
    \/ LoadSyncFails
    \/ \E t \in LoadTasks : LoadModelReturns(t)

ManagerSpec == ManagerInit /\ [][ManagerNext]_vars

\* C40: under every interleaving of constructions and load_model calls for
\* one name, all constructions return the same object, the blocking load
\* succeeds at most once, and a load that succeeded is not discarded: once
\* one has, and no construction or load is under way, the manager is
\* initialized and holds the model and the tokenizer.
C40_SingletonLoadsOnce ==
    /\ Cardinality(returned) <= 1
    /\ loads_ok <= 1
    /\ (loads_ok >= 1 /\ cpc = "idle" /\ job.pc \in {"none", "finished"}) =>
          /\ initialized = "True"
          /\ model = "loaded"
          /\ tokenizer = "loaded"

\* the part that holds: every construction returns the object stored first
SameInstance ==
    /\ returned \subseteq {instance}
    /\ instance \in {0, 1}

==========================================================================
